---- MODULE Spec2Model ----
(***************************************************************************)
(* Big-integer calculator (bigint.c, parser.c, stack.c, main.c).           *)
(*                                                                         *)
(* A BigInt is the record [sign, length, capacity, digits]: digits holds   *)
(* the `length` active words of the buffer, least significant first        *)
(* (TLA+ sequences are 1-based: digits[i + 1] is the C digits[i]).  Words  *)
(* of the buffer at or above `length` are never read by bigint.c before    *)
(* they are written (or they were zeroed by calloc/memset, which ZeroFill  *)
(* reproduces), so they are not stored.                                    *)
(*                                                                         *)
(* Word width.  bigint.c uses 32-bit words and 64-bit temporaries; TLC's   *)
(* integers are 32-bit, so the model keeps the code's arithmetic but with  *)
(* words of BITS_IN_WORD = 12 bits (HEX_WIDTH = 3 hex digits per word) and *)
(* temporaries of twice that width: the widest word whose products fit.    *)
(* Every kernel below is written in terms of BITS_IN_WORD / HEX_WIDTH as   *)
(* the code is, so 2^31 in the code corresponds to 2^11 here, 2^32 to      *)
(* 2^12, and the literal 7 in (n + 7) / HEX_WIDTH to HEX_WIDTH - 1.        *)
(***************************************************************************)
EXTENDS Integers, Sequences, FiniteSets, TLC

VARIABLES driver, op, x, y, str, res, out,
          output_num_system, accumulated_row, rows, pc, eval,
          error_already_printed, stdout

\* The state of the calculator: of main.c (the output base, the row given to
\* process_and_print, the rows given so far, what was printed for the row, one
\* sequence a line) and
\* of eval_expression (its position pc, and in eval its argument input and
\* its locals i, can_be_sign, num_stack and op_stack).
calcVars ==
    <<output_num_system, accumulated_row, rows, pc, eval, error_already_printed, stdout>>

vars == <<driver, op, x, y, str, res, out, calcVars>>

(***************************************************************************)
(* Program constants (bigint.c:15-20).                                     *)
(***************************************************************************)
INITIAL_CAPACITY == 4
BASE_DEC == 10
HEX_WIDTH == 3
BITS_IN_WORD == 12
HEX_OFFSET == 10
DEC_DIVISOR == 10

\* The C null pointer where a BigInt* is expected.
NULL == [null |-> TRUE]
\* The C null pointer where a char* is expected.
NULL_STR == <<"(null)">>
\* The string terminator '\0'.
NUL == ""

\* 2^n
RECURSIVE Pow2(_)
Pow2(n) == IF n = 0 THEN 1 ELSE 2 * Pow2(n - 1)

\* Number of values of a word (uint32_t in the code).
BASE == Pow2(BITS_IN_WORD)
\* Number of values of a double-width temporary (uint64_t in the code).
WIDE == BASE * BASE
\* The all-ones word 0xFFFFFFFF.
WORD_MAX == BASE - 1

\* (uint32_t)v
U32(v) == v % BASE
\* v >> BITS_IN_WORD
HighWord(v) == v \div BASE
\* ~w on a word
BitNot(w) == WORD_MAX - w
\* (w >> k) & 1
BitOf(w, k) == (w \div Pow2(k)) % 2
\* w | (1 << k) on a word
SetBit(w, k) == IF BitOf(w, k) = 1 THEN w ELSE w + Pow2(k)
\* a | b on words
RECURSIVE BitOrFrom(_, _, _)
BitOrFrom(a, b, k) ==
    IF k = BITS_IN_WORD THEN 0
    ELSE (IF BitOf(a, k) = 1 \/ BitOf(b, k) = 1 THEN Pow2(k) ELSE 0)
         + BitOrFrom(a, b, k + 1)
BitOr(a, b) == BitOrFrom(a, b, 0)

\* The buffer d seen through n words, the words past Len(d) being the zeroed
\* storage of calloc (bi_create) and memset (bi_resize).
ZeroFill(d, n) == [i \in 1..n |-> IF i <= Len(d) THEN d[i] ELSE 0]

(***************************************************************************)
(* Core functions.                                                         *)
(***************************************************************************)
bi_create ==
    [sign |-> 0, length |-> 1, capacity |-> INITIAL_CAPACITY, digits |-> <<0>>]

bi_copy(original) ==
    IF original = NULL \/ original.capacity = 0 THEN NULL
    ELSE [sign |-> original.sign, length |-> original.length,
          capacity |-> original.capacity,
          digits |-> SubSeq(original.digits, 1, original.length)]

\* An object of the heap: the BigInt v, marked with the name of the object
\* (for an operand of a library call, the variable that holds it; for an
\* object of eval_expression, its number in the order of allocation).  The
\* functions that write into the object they are given keep the mark, and so
\* does a function that returns the object itself; what bi_create and bi_copy
\* allocate carries none until its caller holds it.
Operand(v, name) ==
    IF v = NULL THEN NULL
    ELSE [sign |-> v.sign, length |-> v.length, capacity |-> v.capacity,
          digits |-> v.digits, object |-> name]

\* The heap of eval_expression counts, for each object in the order of
\* allocation, the calls of bi_destroy on it.  The BigInt r returned to
\* eval_expression by the library is an object of its own, unless the library
\* returned an object the heap already holds.
Allocated(r, heap) ==
    IF "object" \in DOMAIN r THEN [num |-> r, heap |-> heap]
    ELSE [num |-> Operand(r, Len(heap) + 1), heap |-> Append(heap, 0)]

\* The heap after bi_destroy(num).
bi_destroy(num, heap) ==
    IF num = NULL THEN heap ELSE [heap EXCEPT ![num.object] = @ + 1]

\* Yields num with the capacity asked for (the code's `true`); NULL stands for
\* the code's `false`.
bi_resize(num, required_capacity) ==
    IF num = NULL THEN NULL
    ELSE IF num.capacity >= required_capacity THEN num
    ELSE [num EXCEPT !.capacity = required_capacity]

RECURSIVE bi_normalize_len(_, _)
bi_normalize_len(d, n) ==
    IF n > 1 /\ d[n] = 0 THEN bi_normalize_len(d, n - 1) ELSE n

\* bi_normalize that forgets to drop the leading zero words.
bi_normalize_untrimmed(num) ==
    IF num = NULL THEN NULL
    ELSE [num EXCEPT !.sign = IF num.length = 1 /\ num.digits[1] = 0 THEN 0 ELSE @]

bi_normalize(num) ==
    IF num = NULL THEN NULL
    ELSE LET n == bi_normalize_len(num.digits, num.length)
             d == SubSeq(num.digits, 1, n)
         IN  [num EXCEPT !.length = n, !.digits = d,
                         !.sign = IF n = 1 /\ d[1] = 0 THEN 0 ELSE @]

(***************************************************************************)
(* Help functions working in place on a BigInt.                            *)
(***************************************************************************)
RECURSIVE bi_add_into_abs_loop(_, _, _, _, _)
bi_add_into_abs_loop(d, b, max_n, i, carry) ==
    IF i < max_n \/ carry # 0
    THEN LET cur == IF i >= Len(d) THEN 0 ELSE d[i + 1]
             val_b == IF i < b.length THEN b.digits[i + 1] ELSE 0
             sum == (cur + val_b + carry) % WIDE
             d1 == IF i >= Len(d) THEN Append(d, U32(sum))
                   ELSE [d EXCEPT ![i + 1] = U32(sum)]
         IN  bi_add_into_abs_loop(d1, b, max_n, i + 1, HighWord(sum))
    ELSE d

bi_add_into_abs(r, b) ==
    LET max_n == IF b.length > r.length THEN b.length ELSE r.length
        r1 == bi_resize(r, max_n + 1)
        d == bi_add_into_abs_loop(r1.digits, b, max_n, 0, 0)
    IN  bi_normalize([r1 EXCEPT !.digits = d, !.length = Len(d)])

\* First loop of bi_sub_into_abs: the words of b; yields the digits and the borrow.
RECURSIVE bi_sub_into_abs_low(_, _, _, _)
bi_sub_into_abs_low(d, b, i, borrow) ==
    IF i < b.length
    THEN LET diff == (d[i + 1] - b.digits[i + 1] - borrow) % WIDE
             nb == IF diff > d[i + 1] THEN 1 ELSE 0
         IN  bi_sub_into_abs_low([d EXCEPT ![i + 1] = U32(diff)], b, i + 1, nb)
    ELSE [digits |-> d, borrow |-> borrow]

\* Second loop of bi_sub_into_abs: the borrow through the higher words.
RECURSIVE bi_sub_into_abs_high(_, _, _)
bi_sub_into_abs_high(d, j, borrow) ==
    IF borrow # 0 /\ j < Len(d)
    THEN IF d[j + 1] > 0
         THEN bi_sub_into_abs_high([d EXCEPT ![j + 1] = @ - 1], j + 1, 0)
         ELSE bi_sub_into_abs_high([d EXCEPT ![j + 1] = WORD_MAX], j + 1, 1)
    ELSE d

bi_sub_into_abs(result, b) ==
    LET low == bi_sub_into_abs_low(result.digits, b, 0, 0)
        d == bi_sub_into_abs_high(low.digits, b.length, low.borrow)
    IN  bi_normalize([result EXCEPT !.digits = d])

RECURSIVE bi_add_digit_into_loop(_, _, _)
bi_add_digit_into_loop(d, i, carry) ==
    IF i < Len(d) /\ carry # 0
    THEN LET sum == d[i + 1] + carry
         IN  bi_add_digit_into_loop([d EXCEPT ![i + 1] = U32(sum)], i + 1,
                                    HighWord(sum))
    ELSE [digits |-> d, carry |-> carry]

bi_add_digit_into(r, val) ==
    IF val = 0 THEN r
    ELSE IF r.sign = 0
    THEN [r EXCEPT !.digits = <<val>>, !.length = 1, !.sign = 1]
    ELSE LET st == bi_add_digit_into_loop(r.digits, 0, val)
         IN  IF st.carry # 0
             THEN LET r1 == bi_resize(r, r.length + 1)
                  IN  bi_normalize([r1 EXCEPT
                          !.digits = Append(st.digits, U32(st.carry)),
                          !.length = r.length + 1])
             ELSE bi_normalize([r EXCEPT !.digits = st.digits])

RECURSIVE bi_mul_digit_into_loop(_, _, _, _)
bi_mul_digit_into_loop(d, digit, i, carry) ==
    IF i < Len(d)
    THEN LET prod == d[i + 1] * digit + carry
         IN  bi_mul_digit_into_loop([d EXCEPT ![i + 1] = U32(prod)], digit,
                                    i + 1, HighWord(prod))
    ELSE [digits |-> d, carry |-> carry]

bi_mul_digit_into(r, digit) ==
    IF r.sign = 0 \/ digit = 0
    THEN [r EXCEPT !.digits = <<0>>, !.length = 1, !.sign = 0]
    ELSE LET r1 == bi_resize(r, r.length + 1)
             st == bi_mul_digit_into_loop(r1.digits, digit, 0, 0)
         IN  IF st.carry # 0
             THEN bi_normalize([r1 EXCEPT
                      !.digits = Append(st.digits, U32(st.carry)),
                      !.length = r1.length + 1])
             ELSE bi_normalize([r1 EXCEPT !.digits = st.digits])

\* Scans the words from the most significant one; yields the quotient digits
\* and the remainder.
RECURSIVE bi_div10_into_loop(_, _, _)
bi_div10_into_loop(d, i, remainder) ==
    IF i >= 0
    THEN LET current == d[i + 1] + remainder * BASE
         IN  bi_div10_into_loop([d EXCEPT ![i + 1] = U32(current \div DEC_DIVISOR)],
                                i - 1, current % DEC_DIVISOR)
    ELSE [digits |-> d, remainder |-> remainder]

\* bi_div10_into changes res in place and returns the remainder: both are yielded.
bi_div10_into(r) ==
    IF r.sign = 0 THEN [num |-> r, remainder |-> 0]
    ELSE LET st == bi_div10_into_loop(r.digits, r.length - 1, 0)
         IN  [num |-> bi_normalize([r EXCEPT !.digits = st.digits]),
              remainder |-> U32(st.remainder)]

(***************************************************************************)
(* Help math functions.                                                    *)
(***************************************************************************)
RECURSIVE bi_compare_abs_loop(_, _, _)
bi_compare_abs_loop(a, b, i) ==
    IF i > 0
    THEN IF a.digits[i] > b.digits[i] THEN 1
         ELSE IF a.digits[i] < b.digits[i] THEN -1
         ELSE bi_compare_abs_loop(a, b, i - 1)
    ELSE 0

bi_compare_abs(a, b) ==
    IF a = NULL \/ b = NULL THEN 0
    ELSE IF a.length > b.length THEN 1
    ELSE IF a.length < b.length THEN -1
    ELSE bi_compare_abs_loop(a, b, a.length)

bi_get_bit(n, k) ==
    IF n = NULL THEN 0
    ELSE LET digit_idx == k \div BITS_IN_WORD
             bit_idx == k % BITS_IN_WORD
         IN  IF digit_idx < n.length THEN BitOf(n.digits[digit_idx + 1], bit_idx)
             ELSE 0

RECURSIVE bi_bit_length_loop(_, _)
bi_bit_length_loop(last_digit, bits) ==
    IF last_digit > 0 THEN bi_bit_length_loop(last_digit \div 2, bits + 1)
    ELSE bits

bi_bit_length(n) ==
    IF n = NULL THEN 0
    ELSE IF n.sign = 0 THEN 0
    ELSE bi_bit_length_loop(n.digits[n.length], (n.length - 1) * BITS_IN_WORD)

RECURSIVE bi_shift_left_one_loop(_, _, _)
bi_shift_left_one_loop(d, i, carry) ==
    IF i < Len(d)
    THEN LET next_carry == d[i + 1] \div Pow2(BITS_IN_WORD - 1)
         IN  bi_shift_left_one_loop(
                 [d EXCEPT ![i + 1] = U32(d[i + 1] * 2) + carry], i + 1, next_carry)
    ELSE [digits |-> d, carry |-> carry]

bi_shift_left_one(n) ==
    IF n = NULL THEN NULL
    ELSE IF n.sign = 0 THEN n
    ELSE LET n1 == bi_resize(n, n.length + 1)
             st == bi_shift_left_one_loop(n1.digits, 0, 0)
         IN  IF st.carry # 0
             THEN [n1 EXCEPT !.digits = Append(st.digits, st.carry),
                             !.length = n1.length + 1]
             ELSE [n1 EXCEPT !.digits = st.digits]

(***************************************************************************)
(* Core math functions.                                                    *)
(***************************************************************************)
bi_add_abs(a, b) ==
    IF a = NULL \/ b = NULL THEN NULL
    ELSE IF bi_compare_abs(a, b) >= 0 THEN bi_add_into_abs(bi_copy(a), b)
    ELSE bi_add_into_abs(bi_copy(b), a)

bi_sub_abs(a, b) ==
    IF a = NULL \/ b = NULL THEN NULL
    ELSE bi_sub_into_abs(bi_copy(a), b)

\* The long-division loop of bi_div_mod_abs, i running from bits - 1 down to 0.
\* bi_resize yields the resized BigInt, or NULL where the code's returns false.
RECURSIVE bi_div_mod_abs_loop(_, _, _, _, _)
bi_div_mod_abs_loop(a, b, q, r, i) ==
    IF i >= 0
    THEN LET r1 == bi_shift_left_one(r)
             r2 == IF bi_get_bit(a, i) # 0
                   THEN [r1 EXCEPT !.digits[1] = SetBit(@, 0), !.sign = 1]
                   ELSE r1
             r3 == bi_normalize(r2)
             w == i \div BITS_IN_WORD
         IN  IF bi_compare_abs(r3, b) >= 0
             THEN LET q1 == bi_resize(q, w + 1)
                  IN  IF q1 = NULL
                      THEN [quotient |-> NULL, remainder |-> NULL]
                      ELSE LET len == IF q1.length <= w THEN w + 1 ELSE q1.length
                               d == ZeroFill(q1.digits, len)
                               q2 == [q1 EXCEPT
                                         !.digits = [d EXCEPT ![w + 1] =
                                                        SetBit(@, i % BITS_IN_WORD)],
                                         !.length = len, !.sign = 1]
                           IN  bi_div_mod_abs_loop(a, b, q2, bi_sub_into_abs(r3, b),
                                                   i - 1)
             ELSE bi_div_mod_abs_loop(a, b, q, r3, i - 1)
    ELSE [quotient |-> bi_normalize(q), remainder |-> r]

\* The two out-parameters are yielded as a record.
bi_div_mod_abs(a, b) ==
    IF a = NULL \/ b = NULL \/ b.sign = 0
    THEN [quotient |-> NULL, remainder |-> NULL]
    ELSE IF bi_compare_abs(a, b) < 0
    THEN [quotient |-> bi_create, remainder |-> bi_copy(a)]
    ELSE bi_div_mod_abs_loop(a, b, bi_create, bi_create, bi_bit_length(a) - 1)

\* bi_negate writing the sign into its operand.
bi_negate_in_place(a) ==
    IF a = NULL \/ a.capacity = 0 THEN NULL ELSE [a EXCEPT !.sign = -a.sign]

bi_negate(a) ==
    LET result == bi_copy(a)
    IN  IF result = NULL THEN NULL
        ELSE IF result.sign = 0 THEN result
        ELSE [result EXCEPT !.sign = -result.sign]

\* bi_add that gives a difference the sign of its first operand.
bi_add_sign_of_first(a, b) ==
    IF a = NULL \/ b = NULL THEN NULL
    ELSE IF a.sign = 0 THEN bi_copy(b)
    ELSE IF b.sign = 0 THEN bi_copy(a)
    ELSE IF a.sign = b.sign THEN [bi_add_abs(a, b) EXCEPT !.sign = a.sign]
    ELSE LET cmp == bi_compare_abs(a, b)
         IN  IF cmp = 0 THEN bi_create
             ELSE IF cmp > 0 THEN [bi_sub_abs(a, b) EXCEPT !.sign = a.sign]
             ELSE [bi_sub_abs(b, a) EXCEPT !.sign = a.sign]

bi_add(a, b) ==
    IF a = NULL \/ b = NULL THEN NULL
    ELSE IF a.sign = 0 THEN bi_copy(b)
    ELSE IF b.sign = 0 THEN bi_copy(a)
    ELSE IF a.sign = b.sign THEN [bi_add_abs(a, b) EXCEPT !.sign = a.sign]
    ELSE LET cmp == bi_compare_abs(a, b)
         IN  IF cmp = 0 THEN bi_create
             ELSE IF cmp > 0 THEN [bi_sub_abs(a, b) EXCEPT !.sign = a.sign]
             ELSE [bi_sub_abs(b, a) EXCEPT !.sign = b.sign]

bi_sub(a, b) ==
    IF a = NULL \/ b = NULL THEN NULL
    ELSE LET neg_b == bi_negate(b)
         IN  IF neg_b = NULL THEN NULL ELSE bi_add(a, neg_b)

\* Inner loop of bi_mul: row i of the schoolbook product.
RECURSIVE bi_mul_row(_, _, _, _, _, _)
bi_mul_row(d, a, b, i, j, carry) ==
    IF j < b.length
    THEN LET current == a.digits[i + 1] * b.digits[j + 1] + d[i + j + 1] + carry
         IN  bi_mul_row([d EXCEPT ![i + j + 1] = U32(current)], a, b, i, j + 1,
                        HighWord(current))
    ELSE [digits |-> d, carry |-> carry]

\* The ripple of a carry out of the word that received the row's carry.
RECURSIVE bi_mul_ripple(_, _, _)
bi_mul_ripple(d, k, ripple) ==
    IF ripple > 0 /\ k < Len(d)
    THEN LET sum == d[k + 1] + ripple
         IN  bi_mul_ripple([d EXCEPT ![k + 1] = U32(sum)], k + 1, HighWord(sum))
    ELSE d

\* The outer loop of bi_mul without the ripple of the carry past the word
\* that receives it.
RECURSIVE bi_mul_rows_no_ripple(_, _, _, _)
bi_mul_rows_no_ripple(d, a, b, i) ==
    IF i < a.length
    THEN LET row == bi_mul_row(d, a, b, i, 0, 0)
         IN  bi_mul_rows_no_ripple(row.digits, a, b, i + 1)
    ELSE d

\* Outer loop of bi_mul.
RECURSIVE bi_mul_rows(_, _, _, _)
bi_mul_rows(d, a, b, i) ==
    IF i < a.length
    THEN LET row == bi_mul_row(d, a, b, i, 0, 0)
         IN  IF row.carry # 0
             THEN LET sum == row.digits[i + b.length + 1] + row.carry
                      d1 == [row.digits EXCEPT ![i + b.length + 1] = U32(sum)]
                  IN  bi_mul_rows(bi_mul_ripple(d1, i + b.length + 1, HighWord(sum)),
                                  a, b, i + 1)
             ELSE bi_mul_rows(row.digits, a, b, i + 1)
    ELSE d

bi_mul(a, b) ==
    IF a = NULL \/ b = NULL THEN NULL
    ELSE IF a.sign = 0 \/ b.sign = 0 THEN bi_create
    ELSE LET total_len == a.length + b.length
             r == bi_resize(bi_create, total_len)
             d == bi_mul_rows([i \in 1..total_len |-> 0], a, b, 0)
         IN  bi_normalize([r EXCEPT !.digits = d, !.length = total_len,
                              !.sign = IF a.sign = b.sign THEN 1 ELSE -1])

bi_div(a, b) ==
    IF a = NULL \/ b = NULL THEN NULL
    ELSE IF b.sign = 0 THEN NULL
    ELSE LET q == bi_div_mod_abs(a, b).quotient
         IN  IF q # NULL
             THEN bi_normalize([q EXCEPT !.sign = IF a.sign = b.sign THEN 1 ELSE -1])
             ELSE q

\* bi_mod that gives the remainder the sign of the divisor.
bi_mod_sign_of_divisor(a, b) ==
    IF a = NULL \/ b = NULL THEN NULL
    ELSE IF b.sign = 0 THEN NULL
    ELSE LET r == bi_div_mod_abs(a, b).remainder
         IN  IF r # NULL THEN bi_normalize([r EXCEPT !.sign = b.sign])
             ELSE r

bi_mod(a, b) ==
    IF a = NULL \/ b = NULL THEN NULL
    ELSE IF b.sign = 0 THEN NULL
    ELSE LET r == bi_div_mod_abs(a, b).remainder
         IN  IF r # NULL THEN bi_normalize([r EXCEPT !.sign = a.sign])
             ELSE r

(***************************************************************************)
(* Characters and strings.  A C string is the sequence of its characters   *)
(* (one-character strings); reading the position just past the end yields  *)
(* the terminator NUL.                                                     *)
(***************************************************************************)
DecDigits == <<"0", "1", "2", "3", "4", "5", "6", "7", "8", "9">>
LowerHexLetters == <<"a", "b", "c", "d", "e", "f">>
UpperHexLetters == <<"A", "B", "C", "D", "E", "F">>

\* The position of character c in the run of characters t, from 0: c - t[1].
CharOffset(t, c) == (CHOOSE i \in 1..Len(t) : t[i] = c) - 1
\* first <= c <= last for a run of consecutive characters t
InRun(t, c) == \E i \in 1..Len(t) : t[i] = c

\* s[i] for the C string s (i counted from 0)
CharAt(s, i) == IF i < Len(s) THEN s[i + 1] ELSE NUL
\* The C string s + k
Advance(s, k) == SubSeq(s, k + 1, Len(s))

\* isspace in the C locale
isspace(c) == c \in {" ", "\t", "\n", "\r", "\f"}

hex_value(c) ==
    IF InRun(DecDigits, c) THEN CharOffset(DecDigits, c)
    ELSE IF InRun(LowerHexLetters, c) THEN CharOffset(LowerHexLetters, c) + HEX_OFFSET
    ELSE IF InRun(UpperHexLetters, c) THEN CharOffset(UpperHexLetters, c) + HEX_OFFSET
    ELSE -1

(***************************************************************************)
(* Conversions from text.                                                  *)
(***************************************************************************)
RECURSIVE bi_from_dec_loop(_, _, _)
bi_from_dec_loop(r, s, p) ==
    IF CharAt(s, p) # NUL
    THEN IF InRun(DecDigits, CharAt(s, p))
         THEN LET r1 == bi_add_digit_into(bi_mul_digit_into(r, BASE_DEC),
                                          CharOffset(DecDigits, CharAt(s, p)))
              IN  IF r1 = NULL THEN NULL ELSE bi_from_dec_loop(r1, s, p + 1)
         ELSE bi_from_dec_loop(r, s, p + 1)
    ELSE r

bi_from_dec(s) ==
    IF s = NULL_STR \/ CharAt(s, 0) = NUL THEN NULL
    ELSE bi_normalize(bi_from_dec_loop(bi_create, s, 0))

\* The inner for loop of bi_from_hex: one word from up to HEX_WIDTH characters,
\* read from position i - 1 downwards.
RECURSIVE bi_from_hex_word(_, _, _, _, _)
bi_from_hex_word(s, i, j, current_digit, shift) ==
    IF j < HEX_WIDTH /\ i > 0
    THEN bi_from_hex_word(s, i - 1, j + 1,
                          current_digit + hex_value(CharAt(s, i - 1)) * Pow2(shift),
                          shift + 4)
    ELSE [i |-> i, current_digit |-> current_digit]

\* The while loop of bi_from_hex: the words, least significant first.
RECURSIVE bi_from_hex_pack(_, _, _, _)
bi_from_hex_pack(s, i, digit_index, d) ==
    IF i > 0
    THEN LET w == bi_from_hex_word(s, i, 0, 0, 0)
         IN  bi_from_hex_pack(s, w.i, digit_index + 1,
                              [d EXCEPT ![digit_index + 1] = w.current_digit])
    ELSE d

\* bi_from_hex that does not extend the sign through the top word.
bi_from_hex_no_extension(s) ==
    LET n == Len(s)
    IN  IF CharAt(s, 0) = NUL THEN NULL
        ELSE IF \E i \in 0..(n - 1) : hex_value(CharAt(s, i)) = -1 THEN NULL
        ELSE LET required_digits == (n + (HEX_WIDTH - 1)) \div HEX_WIDTH
                 num == bi_resize(bi_create, required_digits)
                 d == bi_from_hex_pack(s, n, 0, [k \in 1..required_digits |-> 0])
                 pos == [num EXCEPT !.digits = d, !.length = required_digits,
                                    !.sign = 1]
             IN  IF hex_value(CharAt(s, 0)) >= 8
                 THEN LET d2 == [k \in 1..required_digits |-> BitNot(d[k])]
                          inc == bi_add_digit_into([pos EXCEPT !.digits = d2], 1)
                      IN  bi_normalize([inc EXCEPT !.sign = -1])
                 ELSE bi_normalize(pos)

bi_from_hex(s) ==
    LET n == Len(s)
    IN  IF CharAt(s, 0) = NUL THEN NULL
        ELSE IF \E i \in 0..(n - 1) : hex_value(CharAt(s, i)) = -1 THEN NULL
        ELSE LET required_digits == (n + (HEX_WIDTH - 1)) \div HEX_WIDTH
                 num == bi_resize(bi_create, required_digits)
                 d == bi_from_hex_pack(s, n, 0, [k \in 1..required_digits |-> 0])
                 first_val == hex_value(CharAt(s, 0))
                 pos == [num EXCEPT !.digits = d, !.length = required_digits,
                                    !.sign = 1]
             IN  IF first_val >= 8
                 THEN LET bits0 == (n % HEX_WIDTH) * 4
                          bits_used == IF bits0 = 0 THEN BITS_IN_WORD ELSE bits0
                          d1 == IF bits_used < BITS_IN_WORD
                                THEN [d EXCEPT ![required_digits] =
                                         BitOr(@, U32(WORD_MAX * Pow2(bits_used)))]
                                ELSE d
                          d2 == [k \in 1..required_digits |-> BitNot(d1[k])]
                          inc == bi_add_digit_into([pos EXCEPT !.digits = d2], 1)
                      IN  bi_normalize([inc EXCEPT !.sign = -1])
                 ELSE bi_normalize(pos)

\* The accumulation loop of bi_from_bin.
RECURSIVE bi_from_bin_loop(_, _, _, _)
bi_from_bin_loop(r, p, i, n) ==
    IF i < n
    THEN LET r1 == bi_shift_left_one(r)
         IN  IF r1 = NULL THEN NULL
             ELSE IF CharAt(p, i) = "1"
             THEN bi_from_bin_loop([r1 EXCEPT !.digits[1] = SetBit(@, 0), !.sign = 1],
                                   p, i + 1, n)
             ELSE bi_from_bin_loop(r1, p, i + 1, n)
    ELSE r

\* The sign-extension loop of bi_from_bin, over the bits n .. capacity * BITS_IN_WORD - 1;
\* d holds the res->length active words.
RECURSIVE bi_from_bin_extend(_, _, _)
bi_from_bin_extend(d, bit, limit) ==
    IF bit < limit
    THEN LET word_idx == bit \div BITS_IN_WORD
             bit_idx == bit % BITS_IN_WORD
         IN  IF word_idx < Len(d)
             THEN bi_from_bin_extend([d EXCEPT ![word_idx + 1] = SetBit(@, bit_idx)],
                                     bit + 1, limit)
             ELSE bi_from_bin_extend(d, bit + 1, limit)
    ELSE d

bi_from_bin(s) ==
    IF s = NULL_STR THEN NULL
    ELSE LET p == IF CharAt(s, 0) = "0" /\ CharAt(s, 1) \in {"b", "B"}
                  THEN Advance(s, 2) ELSE s
             n == Len(p)
         IN  IF \E i \in 0..(n - 1) : CharAt(p, i) \notin {"0", "1"} THEN NULL
             ELSE IF n = 0 THEN NULL
             ELSE LET needed_words == (n + BITS_IN_WORD - 1) \div BITS_IN_WORD
                      r0 == [bi_resize(bi_create, needed_words) EXCEPT !.sign = 1]
                      r == bi_from_bin_loop(r0, p, 0, n)
                  IN  IF CharAt(p, 0) = "1"
                      THEN LET d1 == bi_from_bin_extend(r.digits, n,
                                                       r.capacity * BITS_IN_WORD)
                               d2 == [k \in 1..r.length |-> BitNot(d1[k])]
                               inc == bi_add_digit_into([r EXCEPT !.digits = d2], 1)
                           IN  bi_normalize([inc EXCEPT !.sign = -1])
                      ELSE bi_normalize(r)

\* The position of the first character of s at or after p that is no space.
RECURSIVE SkipSpaces(_, _)
SkipSpaces(s, p) ==
    IF CharAt(s, p) # NUL /\ isspace(CharAt(s, p)) THEN SkipSpaces(s, p + 1) ELSE p

bi_from_str(s) ==
    IF s = NULL_STR THEN NULL
    ELSE LET p0 == SkipSpaces(s, 0)
             sign == IF CharAt(s, p0) = "-" THEN -1 ELSE 1
             p1 == IF CharAt(s, p0) \in {"-", "+"} THEN p0 + 1 ELSE p0
             p == SkipSpaces(s, p1)
             num == IF CharAt(s, p) = "0" /\ CharAt(s, p + 1) \in {"b", "B"}
                    THEN bi_from_bin(Advance(s, p + 2))
                    ELSE IF CharAt(s, p) = "0" /\ CharAt(s, p + 1) \in {"x", "X"}
                    THEN bi_from_hex(Advance(s, p + 2))
                    ELSE bi_from_dec(Advance(s, p))
         IN  IF num = NULL THEN NULL
             ELSE IF num.sign # 0 THEN [num EXCEPT !.sign = @ * sign]
             ELSE num

(***************************************************************************)
(* Power and factorial.                                                    *)
(***************************************************************************)
\* The exponentiation-by-squaring loop of bi_pow.
\* The loop of bi_pow multiplying result by current at every iteration.
RECURSIVE bi_pow_loop_no_parity(_, _, _, _, _)
bi_pow_loop_no_parity(result, current, n, zero, two) ==
    IF bi_compare_abs(n, zero) > 0
    THEN LET result1 == bi_mul(result, current)
             new_n == bi_div(n, two)
         IN  IF bi_compare_abs(new_n, zero) <= 0 THEN result1
             ELSE bi_pow_loop_no_parity(result1, bi_mul(current, current), new_n,
                                        zero, two)
    ELSE result

RECURSIVE bi_pow_loop(_, _, _, _, _)
bi_pow_loop(result, current, n, zero, two) ==
    IF bi_compare_abs(n, zero) > 0
    THEN LET mod == bi_mod(n, two)
             is_odd == mod.sign # 0
             result1 == IF is_odd THEN bi_mul(result, current) ELSE result
             new_n == bi_div(n, two)
         IN  IF bi_compare_abs(new_n, zero) <= 0 THEN result1
             ELSE bi_pow_loop(result1, bi_mul(current, current), new_n, zero, two)
    ELSE result

\* bi_pow that looks at a zero base before it looks at a zero exponent.
bi_pow_base_first(base, exponent) ==
    IF base = NULL \/ exponent = NULL THEN NULL
    ELSE IF base.sign = 0 THEN bi_from_dec(<<"0">>)
    ELSE IF exponent.sign = 0 THEN bi_from_dec(<<"1">>)
    ELSE IF exponent.sign = -1 THEN bi_from_dec(<<"0">>)
    ELSE LET one == bi_from_dec(<<"1">>)
         IN  IF bi_compare_abs(base, one) = 0
             THEN IF base.sign = 1 THEN bi_from_dec(<<"1">>)
                  ELSE LET two == bi_from_dec(<<"2">>)
                           mod == bi_mod(exponent, two)
                       IN  IF mod # NULL /\ mod.sign = 0
                           THEN bi_from_dec(<<"1">>)
                           ELSE bi_from_dec(<<"-", "1">>)
             ELSE bi_pow_loop(bi_from_dec(<<"1">>), bi_copy(base), bi_copy(exponent),
                              bi_from_dec(<<"0">>), bi_from_dec(<<"2">>))

bi_pow(base, exponent) ==
    IF base = NULL \/ exponent = NULL THEN NULL
    ELSE IF exponent.sign = 0 THEN bi_from_dec(<<"1">>)
    ELSE IF base.sign = 0 THEN bi_from_dec(<<"0">>)
    ELSE IF exponent.sign = -1 THEN bi_from_dec(<<"0">>)
    ELSE LET one == bi_from_dec(<<"1">>)
         IN  IF bi_compare_abs(base, one) = 0
             THEN IF base.sign = 1 THEN bi_from_dec(<<"1">>)
                  ELSE LET two == bi_from_dec(<<"2">>)
                           mod == bi_mod(exponent, two)
                       IN  IF mod # NULL /\ mod.sign = 0
                           THEN bi_from_dec(<<"1">>)
                           ELSE bi_from_dec(<<"-", "1">>)
             ELSE bi_pow_loop(bi_from_dec(<<"1">>), bi_copy(base), bi_copy(exponent),
                              bi_from_dec(<<"0">>), bi_from_dec(<<"2">>))

RECURSIVE bi_fact_loop(_, _, _)
bi_fact_loop(r, i, n) ==
    IF i <= n THEN bi_fact_loop(bi_mul_digit_into(r, i), (i + 1) % BASE, n) ELSE r

\* What stands for the result of a call that does not return.
NO_RETURN == [no_return |-> TRUE]

\* The counter i of the loop has the width of n: when its test i <= n holds
\* of every value of that width, the loop does not end.
bi_fact(n) ==
    IF n = 0 \/ n = 1 THEN bi_from_dec(<<"1">>)
    ELSE IF \A i \in 0..WORD_MAX : i <= n THEN NO_RETURN
    ELSE bi_fact_loop([bi_create EXCEPT !.digits[1] = 1, !.sign = 1], 2, n)

(***************************************************************************)
(* Conversions to text.                                                    *)
(***************************************************************************)
\* s reversed
Reverse(s) == [i \in 1..Len(s) |-> s[Len(s) + 1 - i]]

\* The digit loop of bi_to_dec: buffer receives the digits, least significant first.
RECURSIVE bi_to_dec_loop(_, _)
bi_to_dec_loop(copy, buffer) ==
    IF copy.sign # 0
    THEN LET st == bi_div10_into(copy)
         IN  bi_to_dec_loop(st.num, Append(buffer, DecDigits[st.remainder + 1]))
    ELSE buffer

bi_to_dec(n) ==
    IF n = NULL THEN NULL_STR
    ELSE IF n.sign = 0 THEN <<"0">>
    ELSE LET copy == [bi_copy(n) EXCEPT !.sign = 1]
             buffer == bi_to_dec_loop(copy, <<>>)
         IN  (IF n.sign = -1 THEN <<"-">> ELSE <<>>) \o Reverse(buffer)

\* sprintf("%08x", w): the word as HEX_WIDTH lower-case hex digits.
HexDigitChar(v) ==
    IF v < 10 THEN DecDigits[v + 1] ELSE LowerHexLetters[v - 10 + 1]
FormatWordHex(w) ==
    [k \in 1..HEX_WIDTH |-> HexDigitChar((w \div Pow2(4 * (HEX_WIDTH - k))) % 16)]

\* The formatting loop of bi_to_hex, from the most significant word (index j) down.
RECURSIVE bi_to_hex_raw(_, _)
bi_to_hex_raw(d, j) ==
    IF j >= 0 THEN FormatWordHex(d[j + 1]) \o bi_to_hex_raw(d, j - 1) ELSE <<>>

\* c is one of '8'..'9', 'a'..'f', 'A'..'F'
IsNegativeMarker(c) ==
    \/ c \in {"8", "9"}
    \/ InRun(LowerHexLetters, c)
    \/ InRun(UpperHexLetters, c)

\* Positive branch of bi_to_hex: start moves over the leading zeros.
RECURSIVE bi_to_hex_skip_zeros(_, _)
bi_to_hex_skip_zeros(raw, start) ==
    IF CharAt(raw, start) = "0" /\ CharAt(raw, start + 1) # NUL
    THEN bi_to_hex_skip_zeros(raw, start + 1)
    ELSE start

\* Negative branch of bi_to_hex: start moves over the redundant leading 'f's.
RECURSIVE bi_to_hex_skip_f(_, _)
bi_to_hex_skip_f(raw, start) ==
    IF CharAt(raw, start) = "f"
    THEN LET next == CharAt(raw, start + 1)
         IN  IF next = NUL THEN start
             ELSE IF IsNegativeMarker(next) THEN bi_to_hex_skip_f(raw, start + 1)
             ELSE start
    ELSE start

bi_to_hex_no_guard_zero(n) ==
    IF n = NULL THEN NULL_STR
    ELSE IF n.sign = 0 THEN <<"0", "x", "0">>
    ELSE LET copy == bi_copy(n)
             working == IF n.sign = -1
                        THEN bi_add_digit_into(
                                 [copy EXCEPT !.digits =
                                     [k \in 1..copy.length |-> BitNot(copy.digits[k])]],
                                 1)
                        ELSE copy
             raw_buffer == bi_to_hex_raw(working.digits, working.length - 1)
             start == IF n.sign = 1
                      THEN bi_to_hex_skip_zeros(raw_buffer, 0)
                      ELSE bi_to_hex_skip_f(raw_buffer, 0)
         IN  <<"0", "x">> \o Advance(raw_buffer, start)

bi_to_hex(n) ==
    IF n = NULL THEN NULL_STR
    ELSE IF n.sign = 0 THEN <<"0", "x", "0">>
    ELSE LET copy == bi_copy(n)
             working == IF n.sign = -1
                        THEN bi_add_digit_into(
                                 [copy EXCEPT !.digits =
                                     [k \in 1..copy.length |-> BitNot(copy.digits[k])]],
                                 1)
                        ELSE copy
             raw_buffer == bi_to_hex_raw(working.digits, working.length - 1)
             start == IF n.sign = 1
                      THEN LET original_start == 0
                               st == bi_to_hex_skip_zeros(raw_buffer, original_start)
                               needs_leading_zero ==
                                   IsNegativeMarker(CharAt(raw_buffer, st))
                           IN  IF needs_leading_zero /\ st # original_start
                               THEN st - 1 ELSE st
                      ELSE bi_to_hex_skip_f(raw_buffer, 0)
         IN  <<"0", "x">> \o Advance(raw_buffer, start)

\* The bit loop of bi_to_bin, from bit i down to bit 0.
RECURSIVE bi_to_bin_bits(_, _)
bi_to_bin_bits(working, i) ==
    IF i >= 0
    THEN <<IF bi_get_bit(working, i) # 0 THEN "1" ELSE "0">>
         \o bi_to_bin_bits(working, i - 1)
    ELSE <<>>

\* start moves on while the first two characters both are c.
RECURSIVE bi_to_bin_skip(_, _, _)
bi_to_bin_skip(buffer, start, c) ==
    IF CharAt(buffer, start) = c /\ CharAt(buffer, start + 1) = c
    THEN bi_to_bin_skip(buffer, start + 1, c)
    ELSE start

\* bi_to_bin that emits no sign bit before the bits of a positive number.
bi_to_bin_no_sign_bit(n) ==
    IF n = NULL THEN NULL_STR
    ELSE IF n.sign = 0 THEN <<"0", "b", "0">>
    ELSE LET copy == bi_copy(n)
             working == IF n.sign = -1
                        THEN [bi_add_digit_into(
                                 [copy EXCEPT !.digits =
                                     [k \in 1..copy.length |-> BitNot(copy.digits[k])]],
                                 1) EXCEPT !.sign = 1]
                        ELSE copy
             bit_len == bi_bit_length(working)
             buffer == (IF n.sign = 1 THEN <<>> ELSE <<"1">>)
                       \o bi_to_bin_bits(working, bit_len - 1)
             start == IF n.sign = 1 THEN 0 ELSE bi_to_bin_skip(buffer, 0, "1")
         IN  <<"0", "b">> \o Advance(buffer, start)

bi_to_bin(n) ==
    IF n = NULL THEN NULL_STR
    ELSE IF n.sign = 0 THEN <<"0", "b", "0">>
    ELSE LET copy == bi_copy(n)
             working == IF n.sign = -1
                        THEN [bi_add_digit_into(
                                 [copy EXCEPT !.digits =
                                     [k \in 1..copy.length |-> BitNot(copy.digits[k])]],
                                 1) EXCEPT !.sign = 1]
                        ELSE copy
             bit_len == bi_bit_length(working)
             buffer == <<IF n.sign = 1 THEN "0" ELSE "1">>
                       \o bi_to_bin_bits(working, bit_len - 1)
             start == IF n.sign = 1 THEN bi_to_bin_skip(buffer, 0, "0")
                      ELSE bi_to_bin_skip(buffer, 0, "1")
         IN  <<"0", "b">> \o Advance(buffer, start)

(***************************************************************************)
(* The stacks of stack.c.  A stack is the record [top, capacity, data]:    *)
(* data holds the top + 1 stored elements, the bottom one first.           *)
(***************************************************************************)
stack_create(capacity) == [top |-> -1, capacity |-> capacity, data |-> <<>>]

stack_is_empty(stack) == stack.top = -1

\* stack_push without the growth of lines 51-63.
stack_push_no_growth(stack, val) ==
    [top |-> stack.top + 1, capacity |-> stack.capacity,
     data |-> Append(stack.data, val)]

\* The stack after stack_push(stack, val).
stack_push(stack, val) ==
    [top |-> stack.top + 1,
     capacity |-> IF stack.top >= stack.capacity - 1
                  THEN stack.capacity * 2 ELSE stack.capacity,
     data |-> Append(stack.data, val)]

\* stack_pop(stack): the value returned and the stack left.
stack_pop(stack) ==
    IF stack_is_empty(stack) THEN [val |-> NULL, stack |-> stack]
    ELSE [val |-> stack.data[stack.top + 1],
          stack |-> [stack EXCEPT !.top = stack.top - 1,
                                  !.data = SubSeq(stack.data, 1, stack.top)]]

\* stack_destroy(stack, false): the elements are left alone.
stack_destroy_keep_elements(stack, heap) == heap

\* The heap after stack_destroy(stack, true).
RECURSIVE stack_destroy(_, _)
stack_destroy(stack, heap) ==
    IF stack = NULL \/ stack_is_empty(stack) THEN heap
    ELSE stack_destroy(stack_pop(stack).stack, bi_destroy(stack_pop(stack).val, heap))

stack_peek(stack) ==
    IF stack_is_empty(stack) THEN NULL ELSE stack.data[stack.top + 1]

char_stack_create(capacity) == [top |-> -1, capacity |-> capacity, data |-> <<>>]

char_stack_is_empty(stack) == stack.top = -1

char_stack_push(stack, val) ==
    [top |-> stack.top + 1,
     capacity |-> IF stack.top >= stack.capacity - 1
                  THEN stack.capacity * 2 ELSE stack.capacity,
     data |-> Append(stack.data, val)]

\* char_stack_pop(stack): the character returned and the stack left.
char_stack_pop(stack) ==
    IF char_stack_is_empty(stack) THEN [val |-> NUL, stack |-> stack]
    ELSE [val |-> stack.data[stack.top + 1],
          stack |-> [stack EXCEPT !.top = stack.top - 1,
                                  !.data = SubSeq(stack.data, 1, stack.top)]]

char_stack_peek(stack) ==
    IF char_stack_is_empty(stack) THEN NUL ELSE stack.data[stack.top + 1]

(***************************************************************************)
(* parser.c: the validator.                                                *)
(***************************************************************************)
INITIAL_STACK_SIZE == 32

\* isdigit and isxdigit in the C locale
isdigit(c) == InRun(DecDigits, c)
isxdigit(c) == hex_value(c) # -1

\* The characters isdigit and isxdigit accept.
DigitChars == {DecDigits[k] : k \in 1..Len(DecDigits)}
XDigitChars ==
    DigitChars \cup {LowerHexLetters[k] : k \in 1..Len(LowerHexLetters)}
               \cup {UpperHexLetters[k] : k \in 1..Len(UpperHexLetters)}

is_operator(c) == c \in {"+", "-", "*", "/", "%", "^", "!", "(", ")"}

\* while (<input[i] is one of C>) i++;
RECURSIVE SkipChars(_, _, _)
SkipChars(input, i, C) ==
    IF CharAt(input, i) \in C THEN SkipChars(input, i + 1, C) ELSE i

\* while (j >= 0 && isspace(input[j])) j--;
RECURSIVE SkipSpacesBack(_, _)
SkipSpacesBack(input, j) ==
    IF j >= 0 /\ isspace(CharAt(input, j)) THEN SkipSpacesBack(input, j - 1) ELSE j

is_unary_no_chain(input, i) ==
    LET j == SkipSpacesBack(input, i - 1)
    IN  IF j >= 0
        THEN IF CharAt(input, i) = "-"
             THEN /\ ~(CharAt(input, j) # "(" /\ ~is_operator(CharAt(input, j)))
                  /\ CharAt(input, j) \notin {"!", "-"}
             ELSE CharAt(input, j) = "("
        ELSE TRUE

\* is_unary for the '+' or '-' at position i.
is_unary(input, i) ==
    LET j == SkipSpacesBack(input, i - 1)
    IN  IF j >= 0
        THEN IF CharAt(input, i) = "-"
             THEN /\ ~(CharAt(input, j) # "(" /\ ~is_operator(CharAt(input, j)))
                  /\ CharAt(input, j) # "!"
             ELSE CharAt(input, j) = "("
        ELSE TRUE

validate_expression_end_no_trailing(input, expect_operand, paren_depth) ==
    IF paren_depth # 0 THEN FALSE
    ELSE ~expect_operand

\* The checks of validate_expression_syntax after its loop.
validate_expression_end(input, expect_operand, paren_depth) ==
    IF paren_depth # 0 THEN FALSE
    ELSE IF expect_operand THEN FALSE
    ELSE LET len == SkipSpacesBack(input, Len(input) - 1) + 1
         IN  ~(len > 0 /\ CharAt(input, len - 1) \in {"+", "-", "*", "/", "%", "^"})

\* The loop of validate_expression_syntax from position i.
RECURSIVE validate_expression_loop(_, _, _, _, _)
validate_expression_loop(input, i, expect_operand, last_was_operator, paren_depth) ==
    LET c == CharAt(input, i)
        c1 == CharAt(input, i + 1)
    IN  IF c = NUL THEN validate_expression_end(input, expect_operand, paren_depth)
        ELSE IF isspace(c)
        THEN validate_expression_loop(input, i + 1, expect_operand,
                                      last_was_operator, paren_depth)
        ELSE IF isdigit(c)
        THEN IF ~expect_operand THEN FALSE
             ELSE IF c = "0" /\ c1 \in {"x", "X"}
             THEN IF ~isxdigit(CharAt(input, i + 2)) THEN FALSE
                  ELSE validate_expression_loop(
                           input,
                           SkipChars(input, i + 2, XDigitChars),
                           FALSE, FALSE, paren_depth)
             ELSE IF c = "0" /\ c1 \in {"b", "B"}
             THEN IF CharAt(input, i + 2) \notin {"0", "1"} THEN FALSE
                  ELSE validate_expression_loop(
                           input, SkipChars(input, i + 2, {"0", "1"}),
                           FALSE, FALSE, paren_depth)
             ELSE validate_expression_loop(
                      input,
                      SkipChars(input, i, DigitChars),
                      FALSE, FALSE, paren_depth)
        ELSE IF is_operator(c)
        THEN IF c = "("
             THEN IF ~expect_operand THEN FALSE
                  ELSE validate_expression_loop(input, i + 1, TRUE, TRUE,
                                                paren_depth + 1)
             ELSE IF c = ")"
             THEN IF expect_operand \/ paren_depth <= 0 THEN FALSE
                  ELSE validate_expression_loop(input, i + 1, FALSE, FALSE,
                                                paren_depth - 1)
             ELSE IF c = "!"
             THEN IF expect_operand THEN FALSE
                  ELSE validate_expression_loop(input, i + 1, FALSE, FALSE,
                                                paren_depth)
             ELSE IF c \in {"-", "+"} /\ is_unary(input, i)
             THEN validate_expression_loop(input, i + 1, expect_operand, TRUE,
                                           paren_depth)
             ELSE IF last_was_operator /\ c # "!" THEN FALSE
             ELSE validate_expression_loop(input, i + 1, TRUE, TRUE, paren_depth)
        ELSE FALSE

validate_expression_syntax(input) ==
    IF input = NULL_STR THEN FALSE
    ELSE validate_expression_loop(input, 0, TRUE, FALSE, 0)

(***************************************************************************)
(* parser.c: the evaluator.  The messages printed are kept, one sequence   *)
(* of a single string each, in the order printed.                          *)
(***************************************************************************)
get_priority_sum_as_product(o) ==
    IF o \in {"+", "-", "*", "/", "%"} THEN 2
    ELSE IF o = "^" THEN 3
    ELSE IF o = "!" THEN 4
    ELSE IF o = "m" THEN 3
    ELSE 0

\* get_priority with the unary minus above '^'.
get_priority_minus_above_pow(o) ==
    IF o \in {"+", "-"} THEN 1
    ELSE IF o \in {"*", "/", "%"} THEN 2
    ELSE IF o = "^" THEN 3
    ELSE IF o = "!" THEN 4
    ELSE IF o = "m" THEN 4
    ELSE 0

get_priority(o) ==
    IF o \in {"+", "-"} THEN 1
    ELSE IF o \in {"*", "/", "%"} THEN 2
    ELSE IF o = "^" THEN 3
    ELSE IF o = "!" THEN 4
    ELSE IF o = "m" THEN 3
    ELSE 0

\* What apply_operation leaves: whether it returned true, the operand stack,
\* the flag, the messages printed and, when it returned false, at which of
\* its returns.
ApplyResult(ok, stack, flag, messages, heap) ==
    [ok |-> ok, num_stack |-> stack, error_already_printed |-> flag,
     printed |-> messages, failure |-> "none", heap |-> heap]

ApplyFailedFlagged(stack, flag, messages, failure, heap) ==
    [ok |-> FALSE, num_stack |-> stack, error_already_printed |-> TRUE,
     printed |-> messages, failure |-> failure, heap |-> heap]

ApplyFailed(stack, flag, messages, failure, heap) ==
    [ok |-> FALSE, num_stack |-> stack, error_already_printed |-> flag,
     printed |-> messages, failure |-> failure, heap |-> heap]

\* Lines 284-289, and 236-241 for the unary minus: the result is pushed, or
\* there is none.
apply_operation_push(stack, result, flag, messages, heap) ==
    IF result = NO_RETURN THEN ApplyFailed(stack, flag, messages, "no return", heap)
    ELSE IF result # NULL
    THEN ApplyResult(TRUE, stack_push(stack, Allocated(result, heap).num), flag,
                     messages, Allocated(result, heap).heap)
    ELSE ApplyFailed(stack, flag, messages, "no result", heap)

\* Lines 263-279: the switch over the binary operators.
apply_operation_switch(o, left, right) ==
    IF o = "+" THEN bi_add(left, right)
    ELSE IF o = "-" THEN bi_sub(left, right)
    ELSE IF o = "*" THEN bi_mul(left, right)
    ELSE IF o = "/" THEN bi_div(left, right)
    ELSE IF o = "%" THEN bi_mod(left, right)
    ELSE IF o = "^" THEN bi_pow(left, right)
    ELSE NULL

apply_operation(num_stack, o, flag, messages, heap) ==
    IF stack_is_empty(num_stack)
    THEN ApplyFailed(num_stack, flag, messages, "operand missing", heap)
    ELSE LET popped == stack_pop(num_stack)
             right == popped.val
         IN  IF o = "!"
             THEN IF right.sign = -1
                  THEN ApplyFailed(popped.stack, TRUE,
                           Append(messages, <<"Input of factorial must not be negative!">>),
                           "negative factorial", bi_destroy(right, heap))
                  ELSE IF right.length > 1
                  THEN ApplyFailed(popped.stack, flag, messages, "factorial too large",
                                   bi_destroy(right, heap))
                  ELSE apply_operation_push(popped.stack, bi_fact(right.digits[1]),
                                            flag, messages, bi_destroy(right, heap))
             ELSE IF o = "m"
             THEN apply_operation_push(popped.stack, bi_negate(right), flag, messages,
                                       bi_destroy(right, heap))
             ELSE IF stack_is_empty(popped.stack)
             THEN ApplyFailed(popped.stack, flag, messages, "operand missing",
                              bi_destroy(right, heap))
             ELSE LET popped2 == stack_pop(popped.stack)
                      left == popped2.val
                  IN  IF o \in {"/", "%"} /\ right.sign = 0
                      THEN ApplyFailed(popped2.stack, TRUE,
                                       Append(messages, <<"Division by zero!">>),
                                       "division by zero",
                                       bi_destroy(right, bi_destroy(left, heap)))
                      ELSE apply_operation_push(popped2.stack,
                                                apply_operation_switch(o, left, right),
                                                flag, messages,
                                                bi_destroy(right, bi_destroy(left, heap)))

\* What a loop of apply_operation calls leaves: whether every call returned
\* true, the two stacks, the flag and the messages printed.
DrainResult(ok, ns, os, flag, messages, heap) ==
    [ok |-> ok, num_stack |-> ns, op_stack |-> os, error_already_printed |-> flag,
     printed |-> messages, failure |-> "none", heap |-> heap]

\* The loop left at the call a of apply_operation that returned false.
DrainFailed(a, os) ==
    [ok |-> FALSE, num_stack |-> a.num_stack, op_stack |-> os,
     error_already_printed |-> a.error_already_printed, printed |-> a.printed,
     failure |-> a.failure, heap |-> a.heap]

\* The loop of eval_expression at a ')': apply down to the nearest '('.
RECURSIVE eval_drain_to_paren(_, _, _, _, _)
eval_drain_to_paren_next(a, os) ==
    IF ~a.ok THEN DrainFailed(a, os)
    ELSE eval_drain_to_paren(a.num_stack, os, a.error_already_printed, a.printed,
                             a.heap)

eval_drain_to_paren(ns, os, flag, messages, heap) ==
    IF ~char_stack_is_empty(os) /\ char_stack_peek(os) # "("
    THEN eval_drain_to_paren_next(
             apply_operation(ns, char_stack_pop(os).val, flag, messages, heap),
             char_stack_pop(os).stack)
    ELSE DrainResult(TRUE, ns, os, flag, messages, heap)

RECURSIVE eval_drain_priority_pow_too(_, _, _, _, _, _)
eval_drain_priority_pow_too_next(a, os, curr_op) ==
    IF ~a.ok THEN DrainFailed(a, os)
    ELSE eval_drain_priority_pow_too(a.num_stack, os, curr_op,
                                     a.error_already_printed, a.printed, a.heap)

eval_drain_priority_pow_too(ns, os, curr_op, flag, messages, heap) ==
    IF /\ ~char_stack_is_empty(os)
       /\ get_priority(char_stack_peek(os)) >= get_priority(curr_op)
       /\ curr_op # "m"
    THEN eval_drain_priority_pow_too_next(
             apply_operation(ns, char_stack_pop(os).val, flag, messages, heap),
             char_stack_pop(os).stack, curr_op)
    ELSE DrainResult(TRUE, ns, os, flag, messages, heap)

\* The loop of eval_expression at the operator curr_op: apply the operators
\* on the stack that bind at least as tightly.
RECURSIVE eval_drain_priority(_, _, _, _, _, _)
eval_drain_priority_next(a, os, curr_op) ==
    IF ~a.ok THEN DrainFailed(a, os)
    ELSE eval_drain_priority(a.num_stack, os, curr_op, a.error_already_printed,
                             a.printed, a.heap)

eval_drain_priority(ns, os, curr_op, flag, messages, heap) ==
    IF /\ ~char_stack_is_empty(os)
       /\ get_priority(char_stack_peek(os)) >= get_priority(curr_op)
       /\ curr_op # "m"
       /\ ~(curr_op = "^" /\ char_stack_peek(os) = "^")
       /\ ~(curr_op = "^" /\ get_priority(char_stack_peek(os)) = get_priority(curr_op))
    THEN eval_drain_priority_next(
             apply_operation(ns, char_stack_pop(os).val, flag, messages, heap),
             char_stack_pop(os).stack, curr_op)
    ELSE DrainResult(TRUE, ns, os, flag, messages, heap)

\* The loop of eval_expression after the input: apply every operator left.
RECURSIVE eval_drain_all(_, _, _, _, _)
eval_drain_all_next(a, os) ==
    IF ~a.ok THEN DrainFailed(a, os)
    ELSE eval_drain_all(a.num_stack, os, a.error_already_printed, a.printed, a.heap)

eval_drain_all(ns, os, flag, messages, heap) ==
    IF ~char_stack_is_empty(os)
    THEN eval_drain_all_next(
             apply_operation(ns, char_stack_pop(os).val, flag, messages, heap),
             char_stack_pop(os).stack)
    ELSE DrainResult(TRUE, ns, os, flag, messages, heap)

(***************************************************************************)
(* bigint.c when an allocation fails.                                      *)
(***************************************************************************)
\* bi_add_into_abs when the realloc of bi_resize fails: the function returns
\* at line 70 and leaves res as it was.  A call whose buffer is large enough
\* does not reach the realloc.
bi_add_into_abs_no_memory(r, b) ==
    LET max_n == IF b.length > r.length THEN b.length ELSE r.length
    IN  IF r.capacity >= max_n + 1 THEN bi_add_into_abs(r, b) ELSE r

bi_add_abs_no_memory(a, b) ==
    IF a = NULL \/ b = NULL THEN NULL
    ELSE IF bi_compare_abs(a, b) >= 0 THEN bi_add_into_abs_no_memory(bi_copy(a), b)
    ELSE bi_add_into_abs_no_memory(bi_copy(b), a)

\* bi_add on operands of one sign, neither zero.
bi_add_no_memory(a, b) ==
    IF a = NULL \/ b = NULL THEN NULL
    ELSE [bi_add_abs_no_memory(a, b) EXCEPT !.sign = a.sign]

\* What a pointer that was never assigned may hold besides NULL and the
\* address of an object: the address of none.
WILD == [wild |-> TRUE]
\* The program ended by a fault.
CRASH == [crash |-> TRUE]

\* bi_div_mod_abs when bi_create fails at lines 464-465, |a| >= |b|: the
\* function returns at line 466 without writing *quotient and *remainder,
\* which keep q0 and r0, what the variables of the caller held.
bi_div_mod_abs_no_memory(a, b, q0, r0) ==
    IF a = NULL \/ b = NULL \/ b.sign = 0
    THEN [quotient |-> NULL, remainder |-> NULL]
    ELSE [quotient |-> q0, remainder |-> r0]

\* bi_div, whose q and r are not initialized: bi_destroy(r) frees r and the
\* sign is written through q, whatever they hold.
bi_div_no_memory(a, b, q0, r0) ==
    IF a = NULL \/ b = NULL THEN NULL
    ELSE IF b.sign = 0 THEN NULL
    ELSE LET qr == bi_div_mod_abs_no_memory(a, b, q0, r0)
         IN  IF qr.remainder = WILD \/ qr.quotient = WILD THEN CRASH
             ELSE IF qr.quotient # NULL
             THEN bi_normalize([qr.quotient EXCEPT
                                   !.sign = IF a.sign = b.sign THEN 1 ELSE -1])
             ELSE NULL

(***************************************************************************)
(* Bounds of the model and the inputs drawn within them.                   *)
(***************************************************************************)
\* Most words of an operand.
MaxLen == 2
\* Largest exponent for which the squaring loop of bi_pow is run.
MaxExp == 5
\* Largest argument given to bi_fact.
MaxFactArg == 6
\* Longest string of hex digits parsed.
MaxHexLen == 4
\* Longest string of bits of which every one is parsed.
MaxBinLen == 6
\* Longest run of equal bits in the middle of the longer strings of bits parsed.
MaxFill == 12
\* Largest one-word magnitude among the operands of the one-operand calls
\* that is taken whatever its digits.
MaxSmall == 300

\* Words the operands are built from.
XWords == {0, 1, BASE \div 2, WORD_MAX}
\* One-word magnitudes the first operand takes besides.
XSmall == {5, BASE_DEC}
YWords == {0, 1, WORD_MAX}
\* One-word magnitudes the second operand takes besides.
YSmall == {2, 3, 5, BASE_DEC}

\* A normalized BigInt of the given sign and magnitude digits, as the
\* constructors leave it (capacity at least INITIAL_CAPACITY).
MkInt(sign, d) ==
    [sign |-> sign, length |-> Len(d),
     capacity |-> IF Len(d) > INITIAL_CAPACITY THEN Len(d) ELSE INITIAL_CAPACITY,
     digits |-> d]

\* The normalized BigInts of at most MaxLen words, the words taken from W.
Magnitudes(W) ==
    UNION {{d \in [1..n -> W] : d[n] # 0} : n \in 1..MaxLen}
Ints(W) ==
    {bi_create} \cup {MkInt(sg, d) : sg \in {-1, 1}, d \in Magnitudes(W)}

\* Operands that fill the INITIAL_CAPACITY words of their buffer.
FullInputs ==
    {MkInt(sg, d) : sg \in {-1, 1},
                    d \in {e \in [1..INITIAL_CAPACITY -> {0, 1, WORD_MAX}] :
                              e[INITIAL_CAPACITY] # 0}}

XInputs == Ints(XWords) \cup {MkInt(sg, <<w>>) : sg \in {-1, 1}, w \in XSmall}
YInputs == Ints(YWords) \cup {MkInt(sg, <<w>>) : sg \in {-1, 1}, w \in YSmall}
\* Operands of the one-operand calls: those of XInputs, of YInputs and every
\* value of magnitude up to MaxSmall.
UInputs ==
    XInputs \cup YInputs \cup {MkInt(sg, <<w>>) : sg \in {-1, 1}, w \in 1..MaxSmall}

\* The strings of length lo..hi over the characters C.
Strings(C, lo, hi) == UNION {[1..n -> C] : n \in lo..hi}

HexChars == {"0", "1", "7", "8", "a", "F"}
HexStrs == Strings(HexChars, 1, MaxHexLen)
\* Every string of at most MaxBinLen bits, and longer ones (up to two words and
\* more): a head, a run of equal bits and a tail.
BinStrs ==
    Strings({"0", "1"}, 1, MaxBinLen)
    \cup {h \o [i \in 1..k |-> f] \o t :
            h \in Strings({"0", "1"}, 1, 2), f \in {"0", "1"},
            k \in 1..MaxFill, t \in Strings({"0", "1"}, 0, 2)}
\* Strings for the dispatcher: spaces, a sign, spaces, a prefix and a body.
StrStrs ==
    {ws1 \o sg \o ws2 \o prefix \o body :
        ws1 \in {<<>>, <<" ">>},
        sg \in {<<>>, <<"-">>, <<"+">>},
        ws2 \in {<<>>, <<" ">>},
        prefix \in {<<>>, <<"0", "x">>, <<"0", "X">>, <<"0", "b">>, <<"0", "B">>},
        body \in Strings({"0", "1", "9", "f"}, 0, 2)}
StrInputs == HexStrs \cup BinStrs \cup StrStrs

\* Longest of the expressions taken over every character of ExprChars.
MaxExprLen == 4
\* Most rows of a session of the calculator.
MaxRows == 2
\* Most elements a stack holds under the driver of the stacks.
MaxDepth == 3

ExprChars == {"2", "0", "-", "+", "*", "/", "(", ")", "!", " "}
\* No two digits follow one another in s.
NoDigitRun(s) == \A k \in 1..(Len(s) - 1) : ~(isdigit(s[k]) /\ isdigit(s[k + 1]))
\* Every string of at most MaxExprLen characters of ExprChars whose numbers
\* have one digit.
ShortExprs == {s \in Strings(ExprChars, 1, MaxExprLen) : NoDigitRun(s)}

ChainLits == {"0", "1", "2", "3"}
ChainOps == {"+", "-", "*", "/", "%", "^"}
\* One binary operator between two one-digit numbers.
SimpleExprs == {<<a, o, b>> : a \in ChainLits, o \in ChainOps, b \in ChainLits}
\* Two binary operators between three one-digit numbers.
ChainExprs ==
    {<<a, o1, b, o2, c>> : a \in ChainLits, o1 \in ChainOps, b \in ChainLits,
                           o2 \in ChainOps, c \in ChainLits}
\* A parenthesised expression and what follows its ')'.
ParenExprs ==
    {<<"(">> \o e \o <<")">> \o t :
        e \in {<<a>> : a \in ChainLits}
              \cup {<<a, o, b>> : a \in ChainLits, o \in {"+", "-", "*"}, b \in ChainLits},
        t \in {<<"-", b>> : b \in ChainLits} \cup {<<"+", b>> : b \in ChainLits}
              \cup {<<"*", "-", b>> : b \in ChainLits} \cup {<<"!">>, <<"-">>, <<>>}}
\* Expressions with longer numbers, spaces and more parentheses.
LongExprs ==
    {<<"0", "x", "F", "F", " ", "+", " ", "1">>,
     <<"0", "x", "0", "F", "F", " ", "+", " ", "1">>,
     <<"2", "5", "5">>,
     <<"-", "1">>,
     <<"(", "-", "3", ")", "!">>,
     <<"4", "0", "9", "6", "!">>,
     <<"(", "(", "2", ")", "-", ")">>,
     <<"*", "3">>,
     <<" ", "2", " ", "+", " ", "3", " ">>,
     <<"2", " ", "^", " ", "3", " ", "^", " ", "2">>,
     <<"2", " ", "+", " ", "3", " ", "*", " ">>}
\* Two operators between two one-digit numbers, with or without a space.
PairExprs ==
    {<<a, o1>> \o sp \o <<o2, b>> :
        a \in ChainLits, o1 \in ChainOps \cup {"!"}, sp \in {<<>>, <<" ">>},
        o2 \in ChainOps, b \in ChainLits}
\* Signs before a one-digit number.
SignExprs ==
    {sg \o <<a>> : sg \in Strings({"-", "+"}, 1, 3), a \in ChainLits}
\* The numbers a factorial is taken of: the small ones, the largest of one
\* word and the smallest of two.
FactLits ==
    {<<DecDigits[k + 1]>> : k \in 0..MaxFactArg}
    \cup {bi_to_dec(MkInt(1, <<WORD_MAX>>)), bi_to_dec(MkInt(1, <<0, 1>>))}
\* A factorial of a number, and of a number negated.
FactExprs ==
    {n \o <<"!">> : n \in FactLits}
    \cup {<<"(", "-">> \o n \o <<")", "!">> : n \in FactLits}
\* A unary minus before a power, a product and a factorial.
MinusExprs ==
    {<<"-", a, o, b>> : a \in ChainLits, o \in {"^", "*"}, b \in ChainLits}
    \cup {<<"-", a, "!">> : a \in ChainLits}
\* Expressions at which apply_operation prints a message: a division by
\* zero, a factorial of a negative number.
DomainErrorExprs ==
    {<<a, o, "0">> : a \in ChainLits, o \in {"/", "%"}}
    \cup {<<"(", "-", a, ")", "!">> : a \in {"1", "2", "3"}}
\* What makes the expression before it one the validator rejects.
BadTails == {<<"+">>, <<" ", "+">>, <<")">>, <<" ", ")">>, <<"(">>, <<" ", "2">>, <<"*", "*", "2">>}
BrokenExprs == {e \o t : e \in DomainErrorExprs, t \in BadTails}
ExprInputs ==
    ShortExprs \cup SimpleExprs \cup FactExprs \cup ChainExprs \cup ParenExprs \cup PairExprs \cup SignExprs
    \cup LongExprs \cup DomainErrorExprs \cup BrokenExprs \cup MinusExprs

\* The capacities the stacks are created with, what is pushed onto the
\* operand stack and what onto the operator stack.
StackSizes == {1, 2, INITIAL_STACK_SIZE}
StackInts == {bi_create, MkInt(-1, <<2>>)}
StackChars == {"+", "("}

\* The rows typed to the calculator.
ShellRows ==
    {<<"h", "e", "x">>,
     <<"b", "i", "n">>,
     <<"d", "e", "c">>,
     <<"o", "u", "t">>,
     <<"q", "u", "i", "t">>,
     <<" ", "q", "u", "i", "t">>,
     <<"h", "e", "x", "a", "g", "o", "n">>,
     <<"b", "i", "n", "a", "r", "y">>,
     <<"d", "e", "c", "i", "m", "a", "l">>,
     <<"f", "o", "o">>,
     <<"f", "o", "o", " ", "b", "a", "r", " ", " ">>,
     <<>>,
     <<"2", "5", "5">>,
     <<"-", "1">>,
     <<"0", "x", "F", "F", " ", "+", " ", "1">>,
     <<"5", "/", "0">>,
     <<"(", "-", "3", ")", "!">>,
     <<"*", "3">>,
     <<" ", "2", " ", "+", " ", "3", " ">>}

(***************************************************************************)
(* The library under its callers.  A driver holds operands (x, y) or a     *)
(* string (str) and calls one function of bigint.h on them; op names the   *)
(* call made, res the BigInt it returned and out the string it returned.   *)
(***************************************************************************)
\* eval_expression outside its loop, on the argument s: no stack exists.
\* failure names the return NULL at which the call ended, if it did at one.
NoEval(s) ==
    [input |-> s, i |-> 0, can_be_sign |-> TRUE, num_stack |-> NULL, op_stack |-> NULL,
     failure |-> "none", heap |-> <<>>]

\* The calculator before any row: the output base is decimal.
CalcIdle ==
    /\ output_num_system = BASE_DEC /\ accumulated_row = NULL_STR /\ rows = 0
    /\ pc = "none"
    /\ eval = NoEval(NULL_STR)
    /\ error_already_printed = FALSE /\ stdout = <<>>

InitBinary ==
    /\ op = "none" /\ res = NULL /\ out = NULL_STR /\ CalcIdle
    /\ driver = "binary" /\ x \in XInputs /\ y \in YInputs /\ str = NULL_STR

InitUnary ==
    /\ op = "none" /\ res = NULL /\ out = NULL_STR /\ CalcIdle
    /\ driver = "unary" /\ x \in UInputs /\ y = NULL /\ str = NULL_STR

InitText ==
    /\ op = "none" /\ res = NULL /\ out = NULL_STR /\ CalcIdle
    /\ driver = "text" /\ x = NULL /\ y = NULL /\ str \in StrInputs

\* eval_expression is called on an expression, the flag of its caller false
\* as process_and_print sets it.
InitEval ==
    /\ op = "none" /\ res = NULL /\ out = NULL_STR
    /\ driver = "eval" /\ x = NULL /\ y = NULL /\ str = NULL_STR
    /\ output_num_system = BASE_DEC /\ accumulated_row = NULL_STR /\ rows = 0
    /\ pc = "call"
    /\ eval \in {NoEval(s) : s \in ExprInputs}
    /\ error_already_printed = FALSE /\ stdout = <<>>

\* The calculator at its first prompt.
InitShell ==
    /\ op = "none" /\ res = NULL /\ out = NULL_STR
    /\ driver = "shell" /\ x = NULL /\ y = NULL /\ str = NULL_STR
    /\ output_num_system = BASE_DEC /\ accumulated_row = NULL_STR /\ rows = 0
    /\ pc = "prompt"
    /\ eval = NoEval(NULL_STR)
    /\ error_already_printed = FALSE /\ stdout = <<>>

\* The two-operand calls in which an allocation fails.
InitNoMemory ==
    /\ op = "none" /\ res = NULL /\ out = NULL_STR /\ CalcIdle
    /\ driver = "no memory" /\ x \in FullInputs /\ y \in YInputs /\ str = NULL_STR

\* Two stacks as stack_create and char_stack_create leave them.
InitStack ==
    /\ op = "none" /\ res = NULL /\ out = NULL_STR
    /\ driver = "stack" /\ x = NULL /\ y = NULL /\ str = NULL_STR
    /\ output_num_system = BASE_DEC /\ accumulated_row = NULL_STR /\ rows = 0
    /\ pc = "none"
    /\ \E size \in StackSizes :
           eval = [NoEval(NULL_STR) EXCEPT !.num_stack = stack_create(size),
                                           !.op_stack = char_stack_create(size)]
    /\ error_already_printed = FALSE /\ stdout = <<>>

InitLibrary == InitBinary \/ InitUnary \/ InitText

Init == InitLibrary \/ InitNoMemory \/ InitStack \/ InitEval \/ InitShell

\* The call op returned the BigInt r.
Returned(name, r) ==
    /\ op = "none"
    /\ op' = name
    /\ res' = r
    /\ UNCHANGED <<driver, x, y, str, out, calcVars>>

Add == driver = "binary" /\ Returned("add", bi_add(Operand(x, "x"), Operand(y, "y")))
Sub == driver = "binary" /\ Returned("sub", bi_sub(Operand(x, "x"), Operand(y, "y")))
Mul == driver = "binary" /\ Returned("mul", bi_mul(Operand(x, "x"), Operand(y, "y")))
Div == driver = "binary" /\ Returned("div", bi_div(Operand(x, "x"), Operand(y, "y")))
Mod == driver = "binary" /\ Returned("mod", bi_mod(Operand(x, "x"), Operand(y, "y")))

\* bi_add(x, y) in which the realloc fails that grows the sum to one word
\* more than its longer operand has.
AddNoMemory ==
    /\ driver = "no memory"
    /\ x.sign = y.sign /\ x.sign # 0
    /\ Returned("add", bi_add_no_memory(Operand(x, "x"), Operand(y, "y")))

\* bi_div(x, y) in which bi_create fails in bi_div_mod_abs; q and r hold
\* whatever was in their place.
DivNoMemory ==
    /\ driver = "no memory"
    /\ y.sign # 0 /\ bi_compare_abs(x, y) >= 0
    /\ \E q0, r0 \in {NULL, WILD, Operand(x, "x"), Operand(y, "y")} :
           Returned("div", bi_div_no_memory(Operand(x, "x"), Operand(y, "y"), q0, r0))

\* The calls of stack.c on the two stacks: op names the call, x and str hold
\* what was pushed, res and out what a pop or a peek returned.
StackPush ==
    /\ driver = "stack" /\ eval.num_stack.top + 1 < MaxDepth
    /\ \E v \in StackInts :
           /\ x' = v
           /\ eval' = [eval EXCEPT !.num_stack = stack_push(eval.num_stack, v)]
    /\ op' = "push"
    /\ UNCHANGED <<driver, y, str, res, out, output_num_system, accumulated_row, rows,
                   pc, error_already_printed, stdout>>

StackPop ==
    /\ driver = "stack"
    /\ res' = stack_pop(eval.num_stack).val
    /\ eval' = [eval EXCEPT !.num_stack = stack_pop(eval.num_stack).stack]
    /\ op' = "pop"
    /\ UNCHANGED <<driver, x, y, str, out, output_num_system, accumulated_row, rows,
                   pc, error_already_printed, stdout>>

StackPeek ==
    /\ driver = "stack"
    /\ res' = stack_peek(eval.num_stack)
    /\ op' = "peek"
    /\ UNCHANGED <<driver, x, y, str, out, calcVars>>

CharStackPush ==
    /\ driver = "stack" /\ eval.op_stack.top + 1 < MaxDepth
    /\ \E v \in StackChars :
           /\ str' = <<v>>
           /\ eval' = [eval EXCEPT !.op_stack = char_stack_push(eval.op_stack, v)]
    /\ op' = "char push"
    /\ UNCHANGED <<driver, x, y, res, out, output_num_system, accumulated_row, rows,
                   pc, error_already_printed, stdout>>

CharStackPop ==
    /\ driver = "stack"
    /\ out' = <<char_stack_pop(eval.op_stack).val>>
    /\ eval' = [eval EXCEPT !.op_stack = char_stack_pop(eval.op_stack).stack]
    /\ op' = "char pop"
    /\ UNCHANGED <<driver, x, y, str, res, output_num_system, accumulated_row, rows,
                   pc, error_already_printed, stdout>>

CharStackPeek ==
    /\ driver = "stack"
    /\ out' = <<char_stack_peek(eval.op_stack)>>
    /\ op' = "char peek"
    /\ UNCHANGED <<driver, x, y, str, res, calcVars>>

\* The squaring loop runs only for exponents up to MaxExp.
PowBounded ==
    \/ y.sign <= 0
    \/ x.sign = 0
    \/ x.length = 1 /\ x.digits[1] = 1
    \/ y.length = 1 /\ y.digits[1] <= MaxExp
Pow == driver = "binary" /\ PowBounded /\ Returned("pow", bi_pow(Operand(x, "x"), Operand(y, "y")))

Negate == driver = "unary" /\ Returned("negate", bi_negate(Operand(x, "x")))

\* As apply_operation calls it: on the only word of a non-negative operand.
Fact ==
    /\ driver = "unary"
    /\ x.sign >= 0 /\ x.length = 1 /\ x.digits[1] <= MaxFactArg
    /\ Returned("fact", bi_fact(x.digits[1]))

Create == driver = "text" /\ Returned("create", bi_create)
FromDec == driver = "text" /\ Returned("from_dec", bi_from_dec(str))
FromHex == driver = "text" /\ Returned("from_hex", bi_from_hex(str))
FromBin == driver = "text" /\ Returned("from_bin", bi_from_bin(str))
FromStr == driver = "text" /\ Returned("from_str", bi_from_str(str))

\* The call op returned the string s.
Printed(name, s) ==
    /\ driver = "unary"
    /\ op = "none"
    /\ op' = name
    /\ out' = s
    /\ UNCHANGED <<driver, x, y, str, res, calcVars>>

ToDec == Printed("to_dec", bi_to_dec(x))
ToHex == Printed("to_hex", bi_to_hex(x))
ToBin == Printed("to_bin", bi_to_bin(x))

\* The printed string is read back by the function parse.
ReadBack(printed, name, r) ==
    /\ op = printed
    /\ op' = name
    /\ res' = r
    /\ UNCHANGED <<driver, x, y, str, out, calcVars>>

ReadDec == ReadBack("to_dec", "to_dec_from_dec", bi_from_dec(out))
ReadHex == ReadBack("to_hex", "to_hex_from_hex", bi_from_hex(Advance(out, 2)))
ReadBin == ReadBack("to_bin", "to_bin_from_bin", bi_from_bin(Advance(out, 2)))
ReadStr ==
    /\ op \in {"to_dec", "to_hex", "to_bin"}
    /\ op' = "to_text_from_str"
    /\ res' = bi_from_str(out)
    /\ UNCHANGED <<driver, x, y, str, out, calcVars>>

(***************************************************************************)
(* The calculator.  The driver "eval" calls eval_expression on an          *)
(* expression; the driver "shell" calls process_and_print on row after     *)
(* row.  eval_expression runs one iteration of its loop a step:            *)
(*   pc = "call"      eval_expression is called on eval.input              *)
(*   pc = "scan"      it is at position eval.i of its loop                 *)
(*   pc = "returned"  it returned res                                      *)
(* and for the shell, pc = "row" when process_and_print is called and      *)
(* pc = "done" when it returned.                                           *)
(***************************************************************************)
libVars == <<op, x, y, str, out>>

\* The character the loop of eval_expression is at.
curr == CharAt(eval.input, eval.i)

\* eval_expression entering its loop without the validation of line 296.
EvalCallUnvalidated ==
    /\ pc = "call"
    /\ pc' = "scan"
    /\ eval' = [eval EXCEPT !.num_stack = stack_create(INITIAL_STACK_SIZE),
                            !.op_stack = char_stack_create(INITIAL_STACK_SIZE),
                            !.can_be_sign = TRUE, !.i = 0]
    /\ UNCHANGED <<driver, libVars, res, output_num_system, accumulated_row, rows,
                   error_already_printed, stdout>>

\* Lines 292-308: the validation and the creation of the stacks.
EvalCall ==
    /\ pc = "call"
    /\ IF eval.input = NULL_STR \/ ~validate_expression_syntax(eval.input)
       THEN /\ pc' = "returned"
            /\ res' = NULL
            /\ eval' = [eval EXCEPT !.failure = "rejected"]
       ELSE /\ pc' = "scan"
            /\ res' = res
            /\ eval' = [eval EXCEPT !.num_stack = stack_create(INITIAL_STACK_SIZE),
                                    !.op_stack = char_stack_create(INITIAL_STACK_SIZE),
                                    !.can_be_sign = TRUE, !.i = 0]
    /\ UNCHANGED <<driver, libVars, output_num_system, accumulated_row, rows,
                   error_already_printed, stdout>>

\* eval_expression returns NULL after destroying its stacks, the loop d of
\* apply_operation calls having failed; or it hangs in a call that does not
\* return.
EvalFailed(d) ==
    /\ pc' = IF d.failure = "no return" THEN "hang" ELSE "returned"
    /\ res' = NULL
    /\ eval' = IF d.failure = "no return" THEN [eval EXCEPT !.failure = d.failure]
                ELSE [eval EXCEPT !.num_stack = NULL, !.op_stack = NULL,
                                  !.failure = d.failure,
                                  !.heap = stack_destroy(d.num_stack, d.heap)]
    /\ error_already_printed' = d.error_already_printed
    /\ stdout' = d.printed

\* Lines 312-316 and 432: a space, or a character that is none of the others.
EvalSkip ==
    /\ pc = "scan" /\ curr # NUL
    /\ \/ isspace(curr)
       \/ ~isdigit(curr) /\ curr \notin {"(", ")", "+", "-", "*", "/", "%", "^", "!"}
    /\ eval' = [eval EXCEPT !.i = eval.i + 1]
    /\ UNCHANGED <<driver, libVars, res, output_num_system, accumulated_row, rows, pc,
                   error_already_printed, stdout>>

\* Lines 318-357: a number is copied, converted and pushed.
EvalNumber ==
    /\ pc = "scan" /\ ~isspace(curr) /\ isdigit(curr)
    /\ LET j == SkipChars(eval.input, eval.i, XDigitChars \cup {"x", "X", "b", "B"})
           dynamic_tmp_buf == SubSeq(eval.input, eval.i + 1, j)
           num == Allocated(bi_from_str(dynamic_tmp_buf), eval.heap)
       IN  eval' = [eval EXCEPT
                       !.num_stack = stack_push(eval.num_stack, num.num),
                       !.heap = num.heap,
                       !.i = j, !.can_be_sign = FALSE]
    /\ UNCHANGED <<driver, libVars, res, output_num_system, accumulated_row, rows, pc,
                   error_already_printed, stdout>>

\* Lines 359-364.
EvalOpen ==
    /\ pc = "scan" /\ curr = "("
    /\ eval' = [eval EXCEPT !.op_stack = char_stack_push(eval.op_stack, "("),
                            !.i = eval.i + 1, !.can_be_sign = TRUE]
    /\ UNCHANGED <<driver, libVars, res, output_num_system, accumulated_row, rows, pc,
                   error_already_printed, stdout>>

\* Lines 366-381, d being what the loop at the ')' left.
EvalClosed(d) ==
    IF ~d.ok THEN EvalFailed(d)
    ELSE /\ eval' = [eval EXCEPT !.num_stack = d.num_stack, !.heap = d.heap,
                                 !.op_stack = char_stack_pop(d.op_stack).stack,
                                 !.i = eval.i + 1, !.can_be_sign = FALSE]
         /\ UNCHANGED <<res, pc, error_already_printed, stdout>>

EvalClose ==
    /\ pc = "scan" /\ curr = ")"
    /\ EvalClosed(eval_drain_to_paren(eval.num_stack, eval.op_stack,
                                      error_already_printed, stdout, eval.heap))
    /\ UNCHANGED <<driver, libVars, output_num_system, accumulated_row, rows>>

\* Lines 417-429, d being what the loop at the operator curr_op left.
EvalPushed(d, curr_op) ==
    IF ~d.ok THEN EvalFailed(d)
    ELSE /\ eval' = [eval EXCEPT
                        !.num_stack = d.num_stack, !.heap = d.heap,
                        !.op_stack = char_stack_push(d.op_stack, curr_op),
                        !.i = eval.i + 1,
                        !.can_be_sign = (curr_op # "!")]
         /\ UNCHANGED <<res, pc, error_already_printed, stdout>>

\* Lines 384-430.
EvalOperator ==
    /\ pc = "scan" /\ curr \in {"+", "-", "*", "/", "%", "^", "!"}
    /\ IF eval.can_be_sign /\ curr = "+"
       THEN /\ eval' = [eval EXCEPT !.i = eval.i + 1]
            /\ UNCHANGED <<res, pc, error_already_printed, stdout>>
       ELSE IF eval.can_be_sign /\ curr # "-"
       THEN EvalFailed([error_already_printed |-> error_already_printed,
                        printed |-> stdout, failure |-> "sign expected",
                        num_stack |-> eval.num_stack, heap |-> eval.heap])
       ELSE LET curr_op == IF eval.can_be_sign THEN "m" ELSE curr
            IN  EvalPushed(eval_drain_priority(eval.num_stack, eval.op_stack, curr_op,
                                               error_already_printed, stdout,
                                               eval.heap),
                           curr_op)
    /\ UNCHANGED <<driver, libVars, output_num_system, accumulated_row, rows>>

\* Lines 437-449, d being what the loop after the input left.
EvalEnded(d) ==
    IF ~d.ok THEN EvalFailed(d)
    ELSE /\ pc' = "returned"
         /\ res' = stack_pop(d.num_stack).val
         /\ eval' = [eval EXCEPT
                        !.num_stack = NULL, !.op_stack = NULL,
                        !.heap = stack_destroy(stack_pop(d.num_stack).stack, d.heap)]
         /\ UNCHANGED <<error_already_printed, stdout>>

\* Lines 435-449: after the input, the operators left are applied and the top
\* of the operand stack is returned.
EvalEnd ==
    /\ pc = "scan" /\ curr = NUL
    /\ EvalEnded(eval_drain_all(eval.num_stack, eval.op_stack,
                                error_already_printed, stdout, eval.heap))
    /\ UNCHANGED <<driver, libVars, output_num_system, accumulated_row, rows>>

(***************************************************************************)
(* main.c: process_and_print.                                              *)
(***************************************************************************)
MAX_CMD_NAME == 256
BASE_HEX == 16
BASE_BIN == 2

LowerLetters ==
    <<"a", "b", "c", "d", "e", "f", "g", "h", "i", "j", "k", "l", "m",
      "n", "o", "p", "q", "r", "s", "t", "u", "v", "w", "x", "y", "z">>
UpperLetters ==
    <<"A", "B", "C", "D", "E", "F", "G", "H", "I", "J", "K", "L", "M",
      "N", "O", "P", "Q", "R", "S", "T", "U", "V", "W", "X", "Y", "Z">>
\* isalpha in the C locale
isalpha(c) == InRun(LowerLetters, c) \/ InRun(UpperLetters, c)

\* strstr(p, w) == p
StartsWith(p, w) == Len(p) >= Len(w) /\ SubSeq(p, 1, Len(w)) = w

\* The name of the output base, as the commands print it.
BaseName(base) ==
    IF base = BASE_HEX THEN <<"hex">> ELSE IF base = BASE_BIN THEN <<"bin">> ELSE <<"dec">>

\* cmd_name: the first MAX_CMD_NAME - 1 characters of p without the spaces at
\* their end.
CommandName(p) ==
    LET cmd_name == SubSeq(p, 1, IF Len(p) < MAX_CMD_NAME - 1 THEN Len(p)
                                 ELSE MAX_CMD_NAME - 1)
    IN  SubSeq(cmd_name, 1, SkipSpacesBack(cmd_name, Len(cmd_name) - 1) + 1)

\* Lines 22-96 of process_and_print on the row r with the output base base:
\* whether the row was dealt with as a command, the output base left and
\* the lines printed.
process_and_print_command(r, base) ==
    IF r = NULL_STR \/ Len(r) < 1
    THEN [handled |-> TRUE, output_num_system |-> base, printed |-> <<>>]
    ELSE LET p == Advance(r, SkipSpaces(r, 0))
         IN  IF p = <<"q", "u", "i", "t">>
             THEN [handled |-> TRUE, output_num_system |-> base,
                   printed |-> << <<"quit">> >>]
             ELSE IF StartsWith(p, <<"o", "u", "t">>)
             THEN [handled |-> TRUE, output_num_system |-> base,
                   printed |-> <<BaseName(base)>>]
             ELSE IF StartsWith(p, <<"h", "e", "x">>)
             THEN [handled |-> TRUE, output_num_system |-> BASE_HEX,
                   printed |-> << <<"hex">> >>]
             ELSE IF StartsWith(p, <<"b", "i", "n">>)
             THEN [handled |-> TRUE, output_num_system |-> BASE_BIN,
                   printed |-> << <<"bin">> >>]
             ELSE IF StartsWith(p, <<"d", "e", "c">>)
             THEN [handled |-> TRUE, output_num_system |-> BASE_DEC,
                   printed |-> << <<"dec">> >>]
             ELSE IF /\ isalpha(CharAt(p, 0))
                     /\ ~\E k \in 0..(Len(p) - 1) :
                            CharAt(p, k) \in {"+", "-", "*", "/", "%", "^", "(", ")", "!"}
             THEN [handled |-> TRUE, output_num_system |-> base,
                   printed |-> << <<"Invalid command \"">> \o CommandName(p)
                                  \o <<"\"!">> >>]
             ELSE [handled |-> FALSE, output_num_system |-> base, printed |-> <<>>]

\* process_and_print is called on the row and returns at one of lines 22-94.
ProcessCommand ==
    /\ pc = "row"
    /\ LET c == process_and_print_command(accumulated_row, output_num_system)
       IN  /\ c.handled
           /\ output_num_system' = c.output_num_system
           /\ stdout' = c.printed
    /\ pc' = "prompt"
    /\ UNCHANGED <<driver, libVars, res, accumulated_row, rows, eval,
                   error_already_printed>>

\* process_and_print is called on the row and reaches lines 98-99: it calls
\* eval_expression on the row from its first character that is no space.
ProcessExpression ==
    /\ pc = "row"
    /\ ~process_and_print_command(accumulated_row, output_num_system).handled
    /\ error_already_printed' = FALSE
    /\ eval' = NoEval(Advance(accumulated_row, SkipSpaces(accumulated_row, 0)))
    /\ pc' = "call"
    /\ UNCHANGED <<driver, libVars, res, output_num_system, accumulated_row, rows,
                   stdout>>

\* Lines 101-121: the result is printed in the output base, or "Syntax error!"
\* unless the error was printed already.
PrintResult ==
    /\ driver = "shell" /\ pc = "returned"
    /\ stdout' =
          IF res # NULL
          THEN LET text == IF output_num_system = BASE_HEX THEN bi_to_hex(res)
                           ELSE IF output_num_system = BASE_BIN THEN bi_to_bin(res)
                           ELSE bi_to_dec(res)
               IN  IF text # NULL_STR THEN Append(stdout, text) ELSE stdout
          ELSE IF ~error_already_printed THEN Append(stdout, <<"Syntax error!">>)
          ELSE stdout
    /\ pc' = "prompt"
    /\ UNCHANGED <<driver, libVars, res, output_num_system, accumulated_row, rows, eval,
                   error_already_printed>>

\* The loop of main in the interaction mode, lines 226-262, on rows that
\* is_unfinished leaves alone: the row "quit" ends the session, any other is
\* what accumulated_row holds when process_and_print is called.
ReadRow ==
    /\ driver = "shell" /\ pc = "prompt" /\ rows < MaxRows
    /\ \E r \in ShellRows :
          /\ accumulated_row' = r
          /\ IF r = <<"q", "u", "i", "t">>
             THEN pc' = "exit" /\ stdout' = << <<"quit">> >>
             ELSE pc' = "row" /\ stdout' = <<>>
    /\ rows' = rows + 1
    /\ res' = NULL
    /\ eval' = NoEval(NULL_STR)
    /\ error_already_printed' = FALSE
    /\ UNCHANGED <<driver, libVars, output_num_system>>

NextBinary == Add \/ Sub \/ Mul \/ Div \/ Mod \/ Pow

NextUnary ==
    \/ Negate \/ Fact
    \/ ToDec \/ ToHex \/ ToBin
    \/ ReadDec \/ ReadHex \/ ReadBin \/ ReadStr

NextText == Create \/ FromDec \/ FromHex \/ FromBin \/ FromStr

NextLibrary == NextBinary \/ NextUnary \/ NextText

NextNoMemory == AddNoMemory \/ DivNoMemory

NextStack ==
    \/ StackPush \/ StackPop \/ StackPeek
    \/ CharStackPush \/ CharStackPop \/ CharStackPeek

NextEval ==
    \/ EvalCall \/ EvalSkip \/ EvalNumber \/ EvalOpen \/ EvalClose \/ EvalOperator
    \/ EvalEnd

NextShell == ReadRow \/ ProcessCommand \/ ProcessExpression \/ NextEval \/ PrintResult

Next == NextLibrary \/ NextNoMemory \/ NextStack \/ NextEval \/ NextShell

\* Every driver.
Spec == Init /\ [][Next]_vars
\* Every driver of the library.
SpecLibrary == InitLibrary /\ [][NextLibrary]_vars
\* eval_expression alone.
SpecEval == InitEval /\ [][NextEval]_vars
\* The calculator.
SpecShell == InitShell /\ [][NextShell]_vars
\* The two-operand calls in which an allocation fails.
SpecNoMemory == InitNoMemory /\ [][NextNoMemory]_vars
\* The two stacks alone.
SpecStack == InitStack /\ [][NextStack]_vars
\* The two-operand calls alone.
SpecBinary == InitBinary /\ [][NextBinary]_vars
\* The one-operand calls and the printing alone.
SpecUnary == InitUnary /\ [][NextUnary]_vars
\* The calls on strings alone.
SpecText == InitText /\ [][NextText]_vars

(***************************************************************************)
(* The mathematical integers the properties speak of.                      *)
(*                                                                         *)
(* Val is the integer a BigInt stands for, as a TLC integer: it exists for *)
(* BigInts of at most ValWords words.  For the longer ones the integer is  *)
(* known by its residues modulo the pairwise distinct primes Primes, each  *)
(* above 2^15: two integers of magnitude below 2^(15 * Len(Primes) - 1)    *)
(* with the same residues are equal (Chinese remainder theorem), which is  *)
(* the case of all BigInts of at most ResidueWords words.                  *)
(***************************************************************************)
IsBigInt(n) ==
    /\ n # NULL
    /\ n.sign \in {-1, 0, 1}
    /\ n.length >= 1
    /\ Len(n.digits) = n.length
    /\ \A i \in 1..n.length : n.digits[i] \in 0..WORD_MAX

\* The normalized form of section 3 of the specification.
IsNormalized(n) ==
    /\ IsBigInt(n)
    /\ \/ n.sign = 0 /\ n.length = 1 /\ n.digits[1] = 0
       \/ n.sign \in {-1, 1} /\ n.digits[n.length] # 0

\* Two BigInts with the same sign and the same active words.
SameInt(a, b) ==
    /\ a # NULL /\ b # NULL
    /\ a.sign = b.sign /\ a.length = b.length /\ a.digits = b.digits

ValWords == 31 \div BITS_IN_WORD

RECURSIVE MagVal(_, _)
MagVal(d, n) == IF n = 0 THEN 0 ELSE d[n] + BASE * MagVal(d, n - 1)
\* MagVal reads the words from the most significant one: d is given reversed.
Val(n) == n.sign * MagVal(Reverse(n.digits), n.length)

Abs(v) == IF v < 0 THEN -v ELSE v
Sgn(v) == IF v < 0 THEN -1 ELSE IF v > 0 THEN 1 ELSE 0

Primes ==
    <<46337, 46327, 46309, 46307, 46301,
      46279, 46273, 46271, 46261, 46237>>
ResidueWords == (15 * Len(Primes)) \div BITS_IN_WORD - 1

RECURSIVE MagResidue(_, _, _)
MagResidue(d, n, p) ==
    IF n = 0 THEN 0 ELSE (d[n] + BASE * MagResidue(d, n - 1, p)) % p
\* The integer of n modulo p.
Residue(n, p) == (n.sign * MagResidue(Reverse(n.digits), n.length, p)) % p

\* r stands for the sum, and for the product, of the integers of a and b.
IsSumOf(r, a, b) ==
    /\ IsNormalized(r) /\ r.length <= ResidueWords
    /\ \A k \in 1..Len(Primes) :
          Residue(r, Primes[k]) = (Residue(a, Primes[k]) + Residue(b, Primes[k])) % Primes[k]
IsProductOf(r, a, b) ==
    /\ IsNormalized(r) /\ r.length <= ResidueWords
    /\ \A k \in 1..Len(Primes) :
          Residue(r, Primes[k]) = (Residue(a, Primes[k]) * Residue(b, Primes[k])) % Primes[k]

Zero == bi_create
One == MkInt(1, <<1>>)
MinusOne == MkInt(-1, <<1>>)

(***************************************************************************)
(* Properties.                                                             *)
(***************************************************************************)

\* C1: for normalized x and y with y # 0, add(mul(div(x, y), y), mod(x, y)) = x,
\* the sign of mod(x, y) is 0 or the sign of x, and |mod(x, y)| < |y|
\* (truncated division: the quotient has the sign sign(x) * sign(y) or is zero).
DivisionIdentity ==
    (op \in {"div", "mod"} /\ y.sign # 0) =>
        LET q == IF op = "div" THEN res ELSE bi_div(x, y)
            r == IF op = "mod" THEN res ELSE bi_mod(x, y)
        IN  /\ IsNormalized(q) /\ IsNormalized(r)
            /\ SameInt(bi_add(bi_mul(q, y), r), x)
            /\ \A k \in 1..Len(Primes) :
                  Residue(x, Primes[k]) =
                      (Residue(q, Primes[k]) * Residue(y, Primes[k])
                       + Residue(r, Primes[k])) % Primes[k]
            /\ r.sign \in {0, x.sign}
            /\ q.sign \in {0, x.sign * y.sign}
            /\ bi_compare_abs(r, y) < 0
            /\ (x.length <= ValWords /\ y.length <= ValWords) =>
                  /\ Val(x) = Val(q) * Val(y) + Val(r)
                  /\ Abs(Val(r)) < Abs(Val(y))

\* A negative dividend of two words left a negative remainder and a negative
\* quotient of more than one bit.
DivisionIdentityWitness ==
    /\ op = "mod" /\ x.sign = -1 /\ y.sign = 1 /\ x.length = 2
    /\ res # NULL /\ res.sign = -1
    /\ bi_div(x, y).sign = -1 /\ bi_div(x, y).digits[1] > 1

\* C2: every BigInt returned by a constructor or an arithmetic operation applied
\* to normalized inputs is normalized: sign = 0, length = 1 and limbs[0] = 0, or
\* sign is -1 or +1, length >= 1 and limbs[length - 1] # 0.
ResultsNormalized ==
    (op # "none" /\ res # NULL) => IsNormalized(res)

\* An addition of two-word operands of opposite signs returned a one-word result.
ResultsNormalizedWitness ==
    /\ op = "add" /\ x.length = 2 /\ y.length = 2 /\ x.sign # y.sign
    /\ res # NULL /\ res.length = 1 /\ res.sign # 0

\* C3: bi_add(a, b) stands for the integer a + b; add(x, 0) = x and
\* add(x, negate(x)) is the canonical zero.
AddIsSum ==
    op = "add" =>
        /\ IsSumOf(res, x, y)
        /\ (x.length <= ValWords /\ y.length <= ValWords /\ res.length <= ValWords)
              => Val(res) = Val(x) + Val(y)
        /\ y.sign = 0 => SameInt(res, x)
        /\ x.sign = 0 => SameInt(res, y)
        /\ SameInt(y, bi_negate(x)) => SameInt(res, Zero)

\* Operands of opposite signs, the negative one the larger, were added with a
\* borrow out of the low word.
AddIsSumWitness ==
    /\ op = "add" /\ x.sign = -1 /\ y.sign = 1 /\ x.length = 2
    /\ y.digits[1] > x.digits[1]
    /\ res # NULL /\ res.sign = -1

\* C4: bi_mul(a, b) stands for the integer a * b: the canonical zero if either
\* operand is zero, else the product of the magnitudes with the sign
\* sign(a) * sign(b); mul(x, 0) = 0 and mul(x, 1) = x.
MulIsProduct ==
    op = "mul" =>
        /\ IsProductOf(res, x, y)
        /\ (x.length + y.length <= ValWords) => Val(res) = Val(x) * Val(y)
        /\ (x.sign = 0 \/ y.sign = 0) => SameInt(res, Zero)
        /\ (x.sign # 0 /\ y.sign # 0) => res.sign = x.sign * y.sign
        /\ SameInt(y, One) => SameInt(res, x)

\* Two two-word operands of opposite signs were multiplied into four words.
MulIsProductWitness ==
    /\ op = "mul" /\ x.length = 2 /\ y.length = 2 /\ x.sign # y.sign
    /\ res # NULL /\ res.length = 4 /\ res.sign = -1

\* The base is +1 or -1.
IsUnit(n) == n.sign # 0 /\ n.length = 1 /\ n.digits[1] = 1
\* The integer of n is odd.
IsOdd(n) == n.digits[1] % 2 = 1

\* C5: for every exponent y > 0, pow(-1, y) is +1 when y is even and -1 when y
\* is odd, and pow(+1, y) is +1.
PowOfUnit ==
    (op = "pow" /\ y.sign = 1 /\ IsUnit(x)) =>
        SameInt(res, IF x.sign = -1 /\ IsOdd(y) THEN MinusOne ELSE One)

\* C6: for a non-positive exponent bi_pow ignores the base: pow(x, 0) = 1 for
\* every x, zero included, and pow(x, y) = 0 for every y < 0 and every x.
PowNonPositiveExponent ==
    op = "pow" =>
        /\ y.sign = 0 => SameInt(res, One)
        /\ y.sign = -1 => SameInt(res, Zero)

\* pow(0, 0) returned 1.
PowNonPositiveExponentWitness ==
    op = "pow" /\ x.sign = 0 /\ y.sign = 0 /\ SameInt(res, One)

(***************************************************************************)
(* Reference reading of a literal, digit by digit.                         *)
(***************************************************************************)
LowerHexAlphabet ==
    <<"0", "1", "2", "3", "4", "5", "6", "7", "8", "9", "a", "b", "c", "d", "e", "f">>
UpperHexAlphabet ==
    <<"0", "1", "2", "3", "4", "5", "6", "7", "8", "9", "A", "B", "C", "D", "E", "F">>
IsDigitOf(c, radix) ==
    \E v \in 1..radix : c = LowerHexAlphabet[v] \/ c = UpperHexAlphabet[v]
DigitOf(c) ==
    (CHOOSE v \in 1..16 : c = LowerHexAlphabet[v] \/ c = UpperHexAlphabet[v]) - 1
IsLiteral(s, radix) ==
    s # NULL_STR /\ Len(s) >= 1 /\ \A i \in 1..Len(s) : IsDigitOf(s[i], radix)

\* The unsigned integer written by the first n digits of s.
RECURSIVE Unsigned(_, _, _)
Unsigned(s, n, radix) ==
    IF n = 0 THEN 0 ELSE radix * Unsigned(s, n - 1, radix) + DigitOf(s[n])
RECURSIVE Power(_, _)
Power(b, e) == IF e = 0 THEN 1 ELSE b * Power(b, e - 1)
\* The two's-complement integer written by s over exactly Len(s) digits.
TwosComplement(s, radix) ==
    IF 2 * DigitOf(s[1]) >= radix
    THEN Unsigned(s, Len(s), radix) - Power(radix, Len(s))
    ELSE Unsigned(s, Len(s), radix)

\* The same integer modulo p, for literals too long for Unsigned.
RECURSIVE UnsignedResidue(_, _, _, _)
UnsignedResidue(s, n, radix, p) ==
    IF n = 0 THEN 0
    ELSE (radix * UnsignedResidue(s, n - 1, radix, p) + DigitOf(s[n])) % p
RECURSIVE PowerResidue(_, _, _)
PowerResidue(b, e, p) == IF e = 0 THEN 1 ELSE (b * PowerResidue(b, e - 1, p)) % p
TwosComplementResidue(s, radix, p) ==
    IF 2 * DigitOf(s[1]) >= radix
    THEN (UnsignedResidue(s, Len(s), radix, p) - PowerResidue(radix, Len(s), p)) % p
    ELSE UnsignedResidue(s, Len(s), radix, p)

\* r is the two's-complement value of the literal s, of bits bits a digit.
IsTwosComplementOf(r, s, radix, bits) ==
    /\ IsNormalized(r)
    /\ r.length <= (Len(s) * bits + (BITS_IN_WORD - 1)) \div BITS_IN_WORD
    /\ r.length <= ResidueWords
    /\ \A k \in 1..Len(Primes) :
          Residue(r, Primes[k]) = TwosComplementResidue(s, radix, Primes[k])
    /\ Len(s) * bits <= ValWords * BITS_IN_WORD => Val(r) = TwosComplement(s, radix)

\* C7: for a non-empty string s of hex digits bi_from_hex(s) is the two's-
\* complement value of s over exactly 4 * len(s) bits, and for a non-empty string
\* s of bits bi_from_bin(s) is the two's-complement value of s over len(s) bits,
\* also when the literal spans more than one word or exactly fills a word.
TwosComplementParse ==
    /\ (op = "from_hex" /\ IsLiteral(str, 16)) => IsTwosComplementOf(res, str, 16, 4)
    /\ (op = "from_bin" /\ IsLiteral(str, 2)) => IsTwosComplementOf(res, str, 2, 1)

\* A negative hex literal one digit longer than a word was parsed.
TwosComplementParseWitness ==
    /\ op = "from_hex" /\ Len(str) = HEX_WIDTH + 1 /\ str[1] = "F"
    /\ res # NULL /\ res.sign = -1 /\ res.length = 2

\* C8: for every normalized x (negative, zero or positive),
\* bi_from_dec(bi_to_dec(x)) = x.
DecRoundTrip ==
    op = "to_dec_from_dec" => SameInt(res, x)

\* C9: for every normalized x >= 0, bi_from_hex of bi_to_hex(x) without its "0x"
\* is x: the first hex digit emitted for a positive x is never in 8..f.
HexRoundTripNonNegative ==
    /\ (op = "to_hex" /\ x.sign >= 0) => ~IsNegativeMarker(out[3])
    /\ (op = "to_hex_from_hex" /\ x.sign >= 0) => SameInt(res, x)

\* Bit k of the magnitude of n.
MagBit(n, k) == (n.digits[k \div BITS_IN_WORD + 1] \div Power(2, k % BITS_IN_WORD)) % 2

\* C10: for every normalized x >= 0, bi_from_bin of bi_to_bin(x) without its "0b"
\* is x: the bits emitted for a positive x are a '0' sign bit and then the bits
\* of x from its highest set bit down to bit 0.
BinRoundTripNonNegative ==
    /\ (op \in {"to_bin", "to_bin_from_bin"} /\ x.sign = 0) => out = <<"0", "b", "0">>
    /\ (op \in {"to_bin", "to_bin_from_bin"} /\ x.sign = 1) =>
          LET bits == Len(out) - 3
          IN  /\ bits >= 1 /\ bits <= x.length * BITS_IN_WORD
              /\ SubSeq(out, 1, 3) = <<"0", "b", "0">>
              /\ out[4] = "1"
              /\ \A k \in 0..(bits - 1) :
                    out[3 + bits - k] = (IF MagBit(x, k) = 1 THEN "1" ELSE "0")
              /\ \A k \in bits..(x.length * BITS_IN_WORD - 1) : MagBit(x, k) = 0
    /\ (op = "to_bin_from_bin" /\ x.sign >= 0) => SameInt(res, x)

\* A positive number of two words with the highest bit of its top word set was
\* printed and read back.
BinRoundTripNonNegativeWitness ==
    /\ op = "to_bin_from_bin" /\ x.sign = 1 /\ x.length = 2
    /\ x.digits[2] >= BASE \div 2
    /\ Len(out) = 3 + 2 * BITS_IN_WORD /\ SameInt(res, x)

\* C11: for every normalized x < 0, bi_from_hex of bi_to_hex(x) without its "0x"
\* is x and bi_from_bin of bi_to_bin(x) without its "0b" is x, also when the
\* magnitude of x exceeds half the range of its words, where the two's-
\* complement form needs one more bit than the words provide.
NegativeRoundTrip ==
    /\ (op = "to_hex_from_hex" /\ x.sign = -1) => SameInt(res, x)
    /\ (op = "to_bin_from_bin" /\ x.sign = -1) => SameInt(res, x)

\* eval_expression has returned from the call on the expression s.
EvalReturned(s) == driver = "eval" /\ pc = "returned" /\ eval.input = s

\* C12 as stated: in the decimal base "0xFF + 1" yields "256".
HexLiteralSumIs256 ==
    EvalReturned(<<"0", "x", "F", "F", " ", "+", " ", "1">>)
        => res # NULL /\ bi_to_dec(res) = <<"2", "5", "6">>

\* C12: in the decimal base "0xFF + 1", evaluated by eval_expression and
\* printed by bi_to_dec, yields "0": 0xFF is -1, its first digit being >= 8.
HexLiteralSumIsZero ==
    EvalReturned(<<"0", "x", "F", "F", " ", "+", " ", "1">>)
        => res # NULL /\ bi_to_dec(res) = <<"0">>

HexLiteralSumIsZeroWitness ==
    /\ EvalReturned(<<"0", "x", "F", "F", " ", "+", " ", "1">>)
    /\ res # NULL /\ res.sign = 0

\* The calculator has dealt with the row r and is back at its prompt.
RowDone(r) == driver = "shell" /\ pc = "prompt" /\ rows > 0 /\ accumulated_row = r

\* C13 as stated: in the hexadecimal output base "255" prints "0xff".
Hex255PrintsFF ==
    (RowDone(<<"2", "5", "5">>) /\ output_num_system = BASE_HEX)
        => stdout = << <<"0", "x", "f", "f">> >>

\* C13: after the output base has been switched to hexadecimal, the
\* expression "255" prints "0x0ff", a '0' before the first digit f.
Hex255Prints0FF ==
    (RowDone(<<"2", "5", "5">>) /\ output_num_system = BASE_HEX)
        => stdout = << <<"0", "x", "0", "f", "f">> >>

Hex255Prints0FFWitness ==
    /\ RowDone(<<"2", "5", "5">>) /\ output_num_system = BASE_HEX
    /\ rows = MaxRows /\ res # NULL /\ Len(stdout) = 1

\* The BigInt the one-digit literal c stands for.
Lit(c) == bi_from_str(<<c>>)

\* r is what a call returned that was to return e: both NULL, or the same
\* integer.
SameResult(r, e) == IF e = NULL THEN r = NULL ELSE r # NULL /\ SameInt(r, e)

\* bi_pow, a NULL operand making NULL.
PowOf(a, b) == IF a = NULL \/ b = NULL THEN NULL ELSE bi_pow(a, b)

\* C14: '^' is right-associative: "a^b^c" evaluates to pow(a, pow(b, c)), and
\* 2^3^2 to 512.
PowRightAssociative ==
    /\ \A a \in ChainLits, b \in ChainLits, c \in ChainLits :
          EvalReturned(<<a, "^", b, "^", c>>)
              => SameResult(res, PowOf(Lit(a), PowOf(Lit(b), Lit(c))))
    /\ EvalReturned(<<"2", " ", "^", " ", "3", " ", "^", " ", "2">>)
          => res # NULL /\ Val(res) = 512

\* 2^3^2 has been evaluated, and (2^3)^2 is another number.
PowRightAssociativeWitness ==
    /\ EvalReturned(<<"2", "^", "3", "^", "2">>)
    /\ res # NULL /\ Val(res) = 512
    /\ ~SameInt(res, PowOf(PowOf(Lit("2"), Lit("3")), Lit("2")))

\* What apply_operation leaves on the stack for the binary operator o on
\* left and right, NULL if it fails or an operand is missing.
BinaryOf(o, left, right) ==
    IF left = NULL \/ right = NULL THEN NULL
    ELSE IF o \in {"/", "%"} /\ right.sign = 0 THEN NULL
    ELSE IF o = "+" THEN bi_add(left, right)
    ELSE IF o = "-" THEN bi_sub(left, right)
    ELSE IF o = "*" THEN bi_mul(left, right)
    ELSE IF o = "/" THEN bi_div(left, right)
    ELSE IF o = "%" THEN bi_mod(left, right)
    ELSE bi_pow(left, right)

\* The precedence of the binary operators: + - below * / % below ^.
Precedence(o) == IF o \in {"+", "-"} THEN 1 ELSE IF o = "^" THEN 3 ELSE 2

\* C15: + - * / % are left-associative and compute left op right: of equal
\* precedence, "a op1 b op2 c" is (a op1 b) op2 c; an operator of higher
\* precedence is applied before a lower one on either side of it.
LeftAssociative ==
    (driver = "eval" /\ pc = "returned" /\ eval.input \in ChainExprs)
        => LET a == eval.input[1]
               o1 == eval.input[2]
               b == eval.input[3]
               o2 == eval.input[4]
               c == eval.input[5]
           IN  ~(o1 = "^" /\ o2 = "^")
                   => SameResult(res,
                          IF Precedence(o2) > Precedence(o1)
                          THEN BinaryOf(o1, Lit(a), BinaryOf(o2, Lit(b), Lit(c)))
                          ELSE BinaryOf(o2, BinaryOf(o1, Lit(a), Lit(b)), Lit(c)))

\* 3-2-1 is 0 and not 2, 1+2*3 is 7 and not 9.
LeftAssociativeWitness ==
    \/ EvalReturned(<<"3", "-", "2", "-", "1">>) /\ res # NULL /\ res.sign = 0
    \/ EvalReturned(<<"1", "+", "2", "*", "3">>) /\ res # NULL /\ Val(res) = 7

\* C16: a '-' after a ')' is binary: "(a)-b" is accepted and evaluates to
\* a - b, and so does "(1+2)-3" to 0.
ParenMinusIsBinary ==
    /\ \A a \in ChainLits, b \in ChainLits :
          EvalReturned(<<"(", a, ")", "-", b>>)
              => SameResult(res, bi_sub(Lit(a), Lit(b)))
    /\ EvalReturned(<<"(", "1", "+", "2", ")", "-", "3">>)
          => res # NULL /\ res.sign = 0

\* eval_expression has returned from a call on an expression that its
\* validator accepted.
AcceptedReturned ==
    driver = "eval" /\ pc = "returned" /\ validate_expression_syntax(eval.input)

\* C17: an expression the validator accepts evaluates to an Int or fails by a
\* division by zero, a factorial of a negative operand or a factorial of an
\* operand of more than one word; never by a missing operand nor by an
\* operator that is no sign where a sign is expected.
ValidatorSound ==
    AcceptedReturned
        => \/ res # NULL
           \/ eval.failure \in {"division by zero", "negative factorial",
                                "factorial too large"}

BinaryOperators == {"+", "-", "*", "/", "%", "^"}

\* How many of the first k characters of s are c.
RECURSIVE Count(_, _, _)
Count(s, c, k) == IF k = 0 THEN 0 ELSE Count(s, c, k - 1) + (IF s[k] = c THEN 1 ELSE 0)

\* s holds a ')' with no '(' before it to match, or a '(' that is not closed.
Unmatched(s) ==
    \/ \E k \in 1..Len(s) : Count(s, ")", k) > Count(s, "(", k)
    \/ Count(s, "(", Len(s)) # Count(s, ")", Len(s))

\* s holds two binary operators with nothing but spaces between them, the
\* second of which is no sign: only a '-' is a sign after a binary operator.
ConsecutiveOperators(s) ==
    \E j \in 1..Len(s), k \in 1..Len(s) :
        /\ j < k /\ s[j] \in BinaryOperators /\ s[k] \in BinaryOperators \ {"-"}
        /\ \A m \in (j + 1)..(k - 1) : isspace(s[m])

\* The last character of s that is no space is a binary operator.
TrailingOperator(s) ==
    \E k \in 1..Len(s) :
        /\ s[k] \in BinaryOperators
        /\ \A m \in (k + 1)..Len(s) : isspace(s[m])

\* C18: the validator rejects every string with an unmatched parenthesis,
\* with two consecutive binary operators that are no legal case of a sign,
\* or with a binary operator at its end, spaces aside.
ValidatorComplete ==
    (driver = "eval" /\ pc = "returned"
        /\ (\/ Unmatched(eval.input) \/ ConsecutiveOperators(eval.input)
            \/ TrailingOperator(eval.input)))
    => res = NULL /\ eval.failure = "rejected"

\* "2*/3", "(2)-" and "(2" have been rejected.
ValidatorCompleteWitness ==
    /\ driver = "eval" /\ pc = "returned" /\ eval.failure = "rejected"
    /\ \/ eval.input = <<"2", "*", "/", "3">>
       \/ eval.input = <<"(", "2", ")", "-">>
       \/ eval.input = <<"(", "2">>

\* s holds a '-' directly after a '-'.
MinusAfterMinus(s) == \E k \in 1..(Len(s) - 1) : s[k] = "-" /\ s[k + 1] = "-"

\* C19 as stated: the validator rejects an expression in which a '-' directly
\* follows another '-'.
ChainedMinusRejected ==
    (driver = "eval" /\ pc = "returned" /\ MinusAfterMinus(eval.input))
        => res = NULL /\ eval.failure = "rejected"

\* C19: unary minus may be chained: the validator accepts a unary '-' that
\* directly follows another '-', "--a" evaluating to a and "a--b" to
\* a - (-b); a '-' that follows '!' is the binary minus, "a!-b" evaluating
\* to a! - b.
ChainedMinusAccepted ==
    \A a \in ChainLits, b \in ChainLits :
        /\ EvalReturned(<<"-", "-", a>>) => SameResult(res, Lit(a))
        /\ EvalReturned(<<a, "-", "-", b>>)
              => SameResult(res, bi_sub(Lit(a), bi_negate(Lit(b))))
        /\ EvalReturned(<<a, "!", "-", b>>)
              => SameResult(res, bi_sub(bi_fact(Lit(a).digits[1]), Lit(b)))

\* --3 is 3, 2--3 is 5 and 3!-2 is 4.
ChainedMinusAcceptedWitness ==
    \/ EvalReturned(<<"-", "-", "3">>) /\ res # NULL /\ Val(res) = 3
    \/ EvalReturned(<<"2", "-", "-", "3">>) /\ res # NULL /\ Val(res) = 5
    \/ EvalReturned(<<"3", "!", "-", "2">>) /\ res # NULL /\ Val(res) = 4

\* C20: eval_expression sets error_already_printed (and returns NULL) if and
\* only if it applied '/' or '%' to a zero right operand or '!' to a negative
\* operand; every other failure returns NULL with the flag false, and a
\* successful evaluation leaves the flag false.
FlagIffArithmeticError ==
    /\ (driver = "eval" /\ pc = "scan") => ~error_already_printed
    /\ (driver = "eval" /\ pc = "returned")
          => /\ error_already_printed
                  <=> eval.failure \in {"division by zero", "negative factorial"}
             /\ error_already_printed
                  => /\ res = NULL
                     /\ stdout \in {<< <<"Division by zero!">> >>,
                                    << <<"Input of factorial must not be negative!">> >>}
             /\ eval.failure = "none" <=> res # NULL
             /\ ~error_already_printed => stdout = <<>>

\* 0/0 or 3%0 has set the flag.
FlagIffArithmeticErrorWitness ==
    /\ EvalReturned(<<"0", "/", "0">>) \/ EvalReturned(<<"3", "%", "0">>)
    /\ error_already_printed /\ res = NULL

\* n! as an integer.
RECURSIVE Factorial(_)
Factorial(n) == IF n <= 1 THEN 1 ELSE n * Factorial(n - 1)

\* C21: '!' applied to n succeeds exactly when 0 <= n < BASE, and then yields
\* n!; applied to a negative n it fails with the message of the negative
\* factorial, and to an n of more than one word it fails with no message.
FactorialApplied ==
    \A n \in FactLits :
        /\ (driver = "eval" /\ pc \notin {"call", "scan"} /\ eval.input = n \o <<"!">>)
              => IF bi_from_dec(n).length = 1
                 THEN /\ pc = "returned" /\ res # NULL /\ ~error_already_printed
                      /\ Val(res) = Factorial(Val(bi_from_dec(n)))
                 ELSE /\ pc = "returned" /\ res = NULL /\ ~error_already_printed
                      /\ stdout = <<>>
        /\ (driver = "eval" /\ pc \notin {"call", "scan"}
              /\ eval.input = <<"(", "-">> \o n \o <<")", "!">>
              /\ bi_from_dec(n).sign # 0)
              => /\ pc = "returned" /\ res = NULL /\ error_already_printed
                 /\ stdout = << <<"Input of factorial must not be negative!">> >>

\* The arithmetic calls of two operands and of one.
ArithmeticOps == {"add", "sub", "mul", "div", "mod", "pow", "negate"}
\* r is one of the objects the caller passed.
IsOperand(r) == r # NULL /\ "object" \in DOMAIN r

EveryIntDestroyedOnce ==
    (driver = "eval" /\ pc = "returned")
        => /\ eval.num_stack = NULL
           /\ res # NULL => res.object \in DOMAIN eval.heap
           /\ \A id \in DOMAIN eval.heap :
                  eval.heap[id] = IF res # NULL /\ res.object = id THEN 0 ELSE 1

\* The call returned NULL at a division by zero, an operand still on the stack.
EveryIntDestroyedOnceWitness ==
    /\ driver = "eval" /\ pc = "returned" /\ res = NULL
    /\ eval.failure = "division by zero" /\ Len(eval.heap) >= 3

\* C24: a call in which an allocation failed returns NULL: no BigInt that
\* holds an incomplete result, and nothing read from an out-parameter that
\* bi_div_mod_abs did not set.
NoMemoryYieldsNull ==
    (driver = "no memory" /\ op # "none") => res = NULL

\* The row without the spaces at its two ends.
RowText(r) == IF r = NULL_STR THEN <<>> ELSE CommandName(Advance(r, SkipSpaces(r, 0)))
\* The commands that name an output base, and the base each names.
BaseCommands == {<<"d", "e", "c">>, <<"h", "e", "x">>, <<"b", "i", "n">>}
BaseNamed(w) ==
    IF w = <<"h", "e", "x">> THEN BASE_HEX
    ELSE IF w = <<"b", "i", "n">> THEN BASE_BIN
    ELSE BASE_DEC

\* C25: the output base is decimal at first; a row that is the command dec,
\* hex or bin sets it to the base the command names, and nothing else
\* changes it: not the command out, which prints the base, nor an expression
\* evaluated, with a result or with an error, nor any other row.
BaseFollowsCommands ==
    /\ (driver = "shell" /\ rows = 0) => output_num_system = BASE_DEC
    /\ [][driver = "shell"
             => /\ output_num_system' =
                      IF pc = "row" /\ RowText(accumulated_row) \in BaseCommands
                      THEN BaseNamed(RowText(accumulated_row))
                      ELSE output_num_system
                /\ (pc = "row" /\ RowText(accumulated_row) = <<"o", "u", "t">>)
                      => stdout' = <<BaseName(output_num_system)>>]_vars

\* The row is none of the commands, starts with a letter and holds no
\* operator character.
UnknownCommand(r) ==
    /\ r # NULL_STR /\ Len(RowText(r)) > 0
    /\ isalpha(RowText(r)[1])
    /\ \A k \in 1..Len(r) : ~is_operator(r[k])
    /\ RowText(r) \notin BaseCommands \cup {<<"o", "u", "t">>, <<"q", "u", "i", "t">>}

\* C26: a row that starts with a letter, holds no operator character and is
\* none of the commands dec, hex, bin, out, quit is answered with "Invalid
\* command" and leaves the output base as it was, also when it begins with
\* the name of a command.
UnknownCommandReported ==
    [][(driver = "shell" /\ pc = "row" /\ UnknownCommand(accumulated_row))
          => /\ output_num_system' = output_num_system
             /\ stdout' = << <<"Invalid command \"">> \o RowText(accumulated_row)
                             \o <<"\"!">> >>]_vars

\* C27: on an input the validator rejects, eval_expression never enters its
\* loop: it creates no operand and applies no operation, prints no message,
\* leaves error_already_printed false and returns NULL, also when the input
\* begins with a division by zero or a factorial of a negative number.
ValidationFirst ==
    (driver = "eval" /\ eval.input \in BrokenExprs)
        => /\ pc \in {"call", "returned"}
           /\ eval.heap = <<>> /\ eval.num_stack = NULL
           /\ ~error_already_printed /\ stdout = <<>>
           /\ pc = "returned" => res = NULL /\ eval.failure = "rejected"

\* "1/0 +" was rejected.
ValidationFirstWitness ==
    /\ driver = "eval" /\ pc = "returned"
    /\ eval.input = <<"1", "/", "0", " ", "+">> /\ eval.failure = "rejected"

\* C28: the unary minus is applied after a '^' or a '!' that follows its
\* operand and before a binary operator of lower precedence: "-a^b" is
\* negate(pow(a, b)), "-a!" is negate(fact(a)), "-a*b" is mul(negate(a), b)
\* and "a^-b" is pow(a, negate(b)).
UnaryMinusPrecedence ==
    (driver = "eval" /\ pc = "returned")
        => /\ eval.input \in {<<"-", a, "^", b>> : a \in ChainLits, b \in ChainLits}
                 => SameResult(res, bi_negate(bi_pow(Lit(eval.input[2]),
                                                     Lit(eval.input[4]))))
           /\ eval.input \in {<<"-", a, "!">> : a \in ChainLits}
                 => SameResult(res, bi_negate(bi_fact(Lit(eval.input[2]).digits[1])))
           /\ eval.input \in {<<"-", a, "*", b>> : a \in ChainLits, b \in ChainLits}
                 => SameResult(res, bi_mul(bi_negate(Lit(eval.input[2])),
                                           Lit(eval.input[4])))
           /\ eval.input \in {<<a, "^", "-", b>> : a \in ChainLits, b \in ChainLits}
                 => SameResult(res, bi_pow(Lit(eval.input[1]),
                                           bi_negate(Lit(eval.input[4]))))

\* -2^2 is -4, -3! is -6 and 2^-1 is 0.
UnaryMinusPrecedenceWitness ==
    \/ EvalReturned(<<"-", "2", "^", "2">>) /\ res # NULL /\ Val(res) = -4
    \/ EvalReturned(<<"-", "3", "!">>) /\ res # NULL /\ Val(res) = -6
    \/ EvalReturned(<<"2", "^", "-", "1">>) /\ res # NULL /\ res.sign = 0

\* r to the power e, modulo p.
RECURSIVE PowMod(_, _, _)
PowMod(r, e, p) == IF e = 0 THEN 1 % p ELSE (r * PowMod(r, e - 1, p)) % p

\* C29: for an exponent y > 0 and a base x that is neither 1 nor -1, zero
\* and the negative bases included, bi_pow returns the integer x^y: a
\* normalized BigInt, congruent to x^y modulo every prime of Primes, of the
\* length x^y has, and negative exactly when x < 0 and y is odd.
PowIsPower ==
    (op = "pow" /\ driver = "binary" /\ y.sign = 1 /\ ~IsUnit(x))
        => /\ res # NULL /\ IsNormalized(res)
           /\ res.sign = IF x.sign = 0 THEN 0
                          ELSE IF x.sign = -1 /\ IsOdd(y) THEN -1 ELSE 1
           /\ x.sign # 0
                  => /\ y.length = 1
                     /\ \A k \in 1..Len(Primes) :
                            Residue(res, Primes[k])
                                = PowMod(Residue(x, Primes[k]), y.digits[1], Primes[k])
                     /\ bi_bit_length(res) > (bi_bit_length(x) - 1) * y.digits[1]
                     /\ bi_bit_length(res) <= bi_bit_length(x) * y.digits[1]

\* (-10)^3 is -1000 and 10^5 is 100000.
PowIsPowerWitness ==
    /\ op = "pow" /\ driver = "binary" /\ res # NULL
    /\ x.length = 1 /\ x.digits[1] = BASE_DEC
    /\ \/ x.sign = -1 /\ y = MkInt(1, <<3>>) /\ Val(res) = -1000
       \/ x.sign = 1 /\ y = MkInt(1, <<5>>) /\ Val(res) = 100000

\* The elements a stack holds, the oldest first.
StackItems(stack) == SubSeq(stack.data, 1, stack.top + 1)

\* What a push, a pop and a peek do to a stack whose pop and peek return
\* empty when it holds nothing: before the call the stack is s and after it
\* t, pushed is the element pushed and returned the one returned.
PushedOnto(s, t, pushed) ==
    /\ StackItems(t) = Append(StackItems(s), pushed)
    /\ t.top = s.top + 1
    /\ t.capacity = IF s.top = s.capacity - 1 THEN 2 * s.capacity ELSE s.capacity
PoppedFrom(s, t, returned, empty) ==
    IF s.top = -1 THEN returned = empty /\ t = s
    ELSE /\ returned = StackItems(s)[s.top + 1]
         /\ StackItems(t) = SubSeq(StackItems(s), 1, s.top)
         /\ t.top = s.top - 1 /\ t.capacity = s.capacity
PeekedAt(s, t, returned, empty) ==
    /\ t = s
    /\ returned = IF s.top = -1 THEN empty ELSE StackItems(s)[s.top + 1]

\* C30: for the operand stack and the operator stack, -1 <= top < capacity
\* after any calls; a push puts its element above the ones stored, which stay
\* in their order, and doubles the capacity of a full stack; a pop returns
\* the element pushed last of those stored and removes it; a pop and a peek
\* of an empty stack return NULL (the operator stack '\0') and leave it empty.
StackDiscipline ==
    /\ [](driver = "stack"
            => /\ -1 <= eval.num_stack.top /\ eval.num_stack.top < eval.num_stack.capacity
               /\ -1 <= eval.op_stack.top /\ eval.op_stack.top < eval.op_stack.capacity)
    /\ [][driver = "stack"
            => /\ op' = "push" => PushedOnto(eval.num_stack, eval.num_stack', x')
               /\ op' = "pop" => PoppedFrom(eval.num_stack, eval.num_stack', res', NULL)
               /\ op' = "peek" => PeekedAt(eval.num_stack, eval.num_stack', res', NULL)
               /\ op' = "char push" => PushedOnto(eval.op_stack, eval.op_stack', str'[1])
               /\ op' = "char pop"
                     => PoppedFrom(eval.op_stack, eval.op_stack', out'[1], NUL)
               /\ op' = "char peek"
                     => PeekedAt(eval.op_stack, eval.op_stack', out'[1], NUL)]_vars

\* A stack created with room for one element holds three, its capacity
\* doubled twice, and the last of them was popped.
StackDisciplineWitness ==
    /\ driver = "stack" /\ op = "pop" /\ res # NULL
    /\ eval.num_stack.capacity = 4 /\ eval.num_stack.top = 1

====
